---- MODULE Spec2Model ----
(***************************************************************************)
(* get-cookies: the cookie-value decryptor and the record transformer of   *)
(* src/src/index.ts, as state machines over bounded inputs.                *)
(*                                                                         *)
(* Representation.  A Buffer is a sequence of bytes (0..255).  A JS string *)
(* is a sequence of UTF-16 code units (0..65535).  null is NULL, an        *)
(* exception that leaves a function is THROWN; neither is a buffer or a    *)
(* string, because no byte or code unit is negative.                       *)
(***************************************************************************)
EXTENDS Integers, Sequences, FiniteSets, TLC

NULL == <<-1>>
THROWN == <<-2>>
UNDEFINED == -1

Min(a, b) == IF a < b THEN a ELSE b
Max(a, b) == IF a > b THEN a ELSE b

\* Buffer.prototype.slice(start, end): negative offsets count from the end,
\* offsets are clamped to the buffer, an empty range gives an empty buffer.
SliceIndex(i, n) == IF i < 0 THEN Max(n + i, 0) ELSE Min(i, n)
Slice(buf, start, end) ==
    LET n == Len(buf)
        a == SliceIndex(start, n)
        b == SliceIndex(end, n)
    IN  IF b <= a THEN << >> ELSE SubSeq(buf, a + 1, b)
SliceFrom(buf, start) == Slice(buf, start, Len(buf))

\* buf[i] of a Buffer: undefined outside 0..length-1.
ByteAt(buf, i) == IF i >= 0 /\ i < Len(buf) THEN buf[i + 1] ELSE UNDEFINED

Fill(n, b) == [i \in 1..n |-> b]

----------------------------------------------------------------------------
(* UTF-8, as Buffer.from(str, "utf-8") and buf.toString("utf-8") do it.     *)

REPLACEMENT == 65533

RECURSIVE Utf8EncodeFrom(_, _)
Utf8EncodeFrom(s, i) ==
    IF i > Len(s) THEN << >>
    ELSE LET c == s[i] IN
      IF c < 128 THEN <<c>> \o Utf8EncodeFrom(s, i + 1)
      ELSE IF c < 2048
        THEN <<192 + (c \div 64), 128 + (c % 64)>> \o Utf8EncodeFrom(s, i + 1)
      ELSE IF c >= 55296 /\ c <= 56319 /\ i < Len(s)
              /\ s[i + 1] >= 56320 /\ s[i + 1] <= 57343
        THEN LET cp == 65536 + (c - 55296) * 1024 + (s[i + 1] - 56320)
             IN  <<240 + (cp \div 262144), 128 + ((cp \div 4096) % 64),
                   128 + ((cp \div 64) % 64), 128 + (cp % 64)>>
                 \o Utf8EncodeFrom(s, i + 2)
      \* a lone surrogate is written as U+FFFD
      ELSE IF c >= 55296 /\ c <= 57343
        THEN <<239, 191, 189>> \o Utf8EncodeFrom(s, i + 1)
      ELSE <<224 + (c \div 4096), 128 + ((c \div 64) % 64), 128 + (c % 64)>>
           \o Utf8EncodeFrom(s, i + 1)
Utf8Encode(s) == Utf8EncodeFrom(s, 1)

Utf8Need(b) ==
    IF b >= 194 /\ b <= 223 THEN 1
    ELSE IF b >= 224 /\ b <= 239 THEN 2
    ELSE IF b >= 240 /\ b <= 244 THEN 3
    ELSE 0
Utf8Lower(b) == IF b = 224 THEN 160 ELSE IF b = 240 THEN 144 ELSE 128
Utf8Upper(b) == IF b = 237 THEN 159 ELSE IF b = 244 THEN 143 ELSE 191

\* how many of the `need` continuation bytes after the lead byte at i are valid
RECURSIVE Utf8Trail(_, _, _, _)
Utf8Trail(buf, i, k, need) ==
    IF k = need \/ i + k + 1 > Len(buf) THEN k
    ELSE LET b  == buf[i + k + 1]
             lo == IF k = 0 THEN Utf8Lower(buf[i]) ELSE 128
             hi == IF k = 0 THEN Utf8Upper(buf[i]) ELSE 191
         IN  IF b >= lo /\ b <= hi THEN Utf8Trail(buf, i, k + 1, need) ELSE k

Utf8CodePoint(buf, i, need) ==
    IF need = 1 THEN (buf[i] - 192) * 64 + (buf[i + 1] - 128)
    ELSE IF need = 2
      THEN (buf[i] - 224) * 4096 + (buf[i + 1] - 128) * 64 + (buf[i + 2] - 128)
    ELSE (buf[i] - 240) * 262144 + (buf[i + 1] - 128) * 4096
         + (buf[i + 2] - 128) * 64 + (buf[i + 3] - 128)

CodeUnits(cp) ==
    IF cp < 65536 THEN <<cp>>
    ELSE <<55296 + ((cp - 65536) \div 1024), 56320 + ((cp - 65536) % 1024)>>

\* an ill-formed sequence decodes to one U+FFFD per maximal subpart
RECURSIVE Utf8DecodeFrom(_, _)
Utf8DecodeFrom(buf, i) ==
    IF i > Len(buf) THEN << >>
    ELSE LET b == buf[i] IN
      IF b < 128 THEN <<b>> \o Utf8DecodeFrom(buf, i + 1)
      ELSE LET need == Utf8Need(b) IN
        IF need = 0 THEN <<REPLACEMENT>> \o Utf8DecodeFrom(buf, i + 1)
        ELSE LET k == Utf8Trail(buf, i, 0, need) IN
          IF k = need
            THEN CodeUnits(Utf8CodePoint(buf, i, need))
                 \o Utf8DecodeFrom(buf, i + need + 1)
            ELSE <<REPLACEMENT>> \o Utf8DecodeFrom(buf, i + k + 1)
\* faulty variant: the bytes are read as Latin-1, one code unit per byte
Utf8Decode_latin1(buf) == buf

Utf8Decode(buf) == Utf8DecodeFrom(buf, 1)

----------------------------------------------------------------------------
(* node:crypto.  SHA-256 and AES-128 are the platform's, not the            *)
(* repository's; the model keeps what decryptCookieValue relies on: the     *)
(* digest is a 32-byte function of the bytes hashed, the block cipher is a  *)
(* keyed permutation of 16-byte blocks, CBC chains the blocks with XOR      *)
(* from the IV, createDecipheriv rejects a key that is not 16 bytes long    *)
(* and, with auto padding off, final() rejects a partial last block.        *)

HASH_PREFIX_LENGTH == 32
MAX_PADDING == 16
BLOCK_SIZE == 16
AES_KEY_LENGTH == 16
V10_PREFIX == <<118, 49, 48>>
IV == Fill(16, 32)

RECURSIVE Xor(_, _)
Xor(a, b) ==
    IF a = 0 /\ b = 0 THEN 0
    ELSE ((a + b) % 2) + 2 * Xor(a \div 2, b \div 2)
XorBlock(a, b) == [i \in 1..BLOCK_SIZE |-> Xor(a[i], b[i])]

RECURSIVE WeightedSum(_, _, _)
WeightedSum(bytes, i, j) ==
    IF j > Len(bytes) THEN 0
    ELSE bytes[j] * (i + j) + WeightedSum(bytes, i, j + 1)
\* crypto.createHash("sha256").update(data).digest()
Sha256(bytes) ==
    [i \in 1..HASH_PREFIX_LENGTH |->
        (WeightedSum(bytes, i, 1) + 97 * i + 13 * Len(bytes)) % 256]

AesEncryptBlock(key, b) ==
    [i \in 1..BLOCK_SIZE |-> (b[BLOCK_SIZE + 1 - i] + key[i] + i) % 256]
AesDecryptBlock(key, c) ==
    [i \in 1..BLOCK_SIZE |->
        (c[BLOCK_SIZE + 1 - i] + 512 - key[BLOCK_SIZE + 1 - i]
            - (BLOCK_SIZE + 1 - i)) % 256]

RECURSIVE CbcEncryptBlocks(_, _, _)
CbcEncryptBlocks(data, key, prev) ==
    IF Len(data) = 0 THEN << >>
    ELSE LET c == AesEncryptBlock(key, XorBlock(SubSeq(data, 1, BLOCK_SIZE), prev))
         IN  c \o CbcEncryptBlocks(SubSeq(data, BLOCK_SIZE + 1, Len(data)), key, c)

RECURSIVE CbcDecryptBlocks(_, _, _)
CbcDecryptBlocks(data, key, prev) ==
    IF Len(data) = 0 THEN << >>
    ELSE LET c == SubSeq(data, 1, BLOCK_SIZE)
         IN  XorBlock(AesDecryptBlock(key, c), prev)
             \o CbcDecryptBlocks(SubSeq(data, BLOCK_SIZE + 1, Len(data)), key, c)

\* createDecipheriv(ALGORITHM, key, IV); setAutoPadding(false);
\* Buffer.concat([update(ciphertext), final()]) -- a buffer, or THROWN
DecipherNoPadding(ciphertext, key, iv) ==
    IF Len(key) # AES_KEY_LENGTH THEN THROWN
    ELSE IF Len(ciphertext) % BLOCK_SIZE # 0 THEN THROWN
    ELSE CbcDecryptBlocks(ciphertext, key, iv)

\* createCipheriv(...); setAutoPadding(false); update(data) ++ final()
CipherNoPadding(data, key, iv) ==
    IF Len(key) # AES_KEY_LENGTH THEN THROWN
    ELSE IF Len(data) % BLOCK_SIZE # 0 THEN THROWN
    ELSE CbcEncryptBlocks(data, key, iv)

----------------------------------------------------------------------------
(* decryptCookieValue                                                      *)

\* faulty variant: only the first two bytes of the marker are compared
IsV10_twoBytes(encryptedValue) ==
    Utf8Decode(Slice(encryptedValue, 0, 2)) = SubSeq(V10_PREFIX, 1, 2)

\* version !== V10_PREFIX, on the first three bytes read as text
IsV10(encryptedValue) == Utf8Decode(Slice(encryptedValue, 0, 3)) = V10_PREFIX

\* faulty variant: a padding of a whole block is not removed
RemovePadding_belowMax(decrypted) ==
    LET paddingLength == ByteAt(decrypted, Len(decrypted) - 1)
    IN  IF paddingLength > 0 /\ paddingLength < MAX_PADDING
          THEN Slice(decrypted, 0, -paddingLength)
          ELSE decrypted

\* the padding length is the last byte; 1..MAX_PADDING of them are removed
RemovePadding(decrypted) ==
    LET paddingLength == ByteAt(decrypted, Len(decrypted) - 1)
    IN  IF paddingLength > 0 /\ paddingLength <= MAX_PADDING
          THEN Slice(decrypted, 0, -paddingLength)
          ELSE decrypted

\* faulty variant: any 32 leading bytes are taken for the hash
HasHashPrefix_unchecked(decrypted, host_key) ==
    Len(decrypted) >= HASH_PREFIX_LENGTH

\* the first 32 bytes are SHA-256 of the host key (a modern cookie)
HasHashPrefix(decrypted, host_key) ==
    /\ Len(decrypted) >= HASH_PREFIX_LENGTH
    /\ Slice(decrypted, 0, HASH_PREFIX_LENGTH) = Sha256(Utf8Encode(host_key))

\* faulty variant: the prefix is never removed
StripHashPrefix_never(decrypted, host_key) == decrypted

StripHashPrefix(decrypted, host_key) ==
    IF HasHashPrefix(decrypted, host_key)
      THEN SliceFrom(decrypted, HASH_PREFIX_LENGTH)
      ELSE decrypted

\* faulty variant: no catch, the exception leaves the function
CatchToNull_rethrow(v) == v

\* try { ... } catch (e) { return null }
CatchToNull(v) == IF v = THROWN THEN NULL ELSE v

\* What one call did: ret is the value returned (a string, NULL, or THROWN if
\* an exception left the call), cipherOps counts the cipher objects created,
\* decrypted is the cipher's output, unpadded the buffer after the padding
\* step, stripped whether the hash prefix was removed.
NoCall ==
    [called |-> FALSE, ret |-> NULL, cipherOps |-> 0, decrypted |-> NULL,
     unpadded |-> NULL, stripped |-> FALSE]
EarlyNull ==
    [called |-> TRUE, ret |-> NULL, cipherOps |-> 0, decrypted |-> NULL,
     unpadded |-> NULL, stripped |-> FALSE]

DecryptCookieValue(encryptedValue, key, host_key) ==
    IF encryptedValue = NULL \/ Len(encryptedValue) = 0 THEN EarlyNull
    ELSE IF ~IsV10(encryptedValue) THEN EarlyNull
    ELSE LET ciphertext == SliceFrom(encryptedValue, 3)
             decrypted  == DecipherNoPadding(ciphertext, key, IV)
         IN  IF decrypted = THROWN
               THEN [called |-> TRUE, ret |-> CatchToNull(THROWN), cipherOps |-> 1,
                     decrypted |-> THROWN, unpadded |-> NULL, stripped |-> FALSE]
               ELSE LET unpadded == RemovePadding(decrypted)
                        value    == StripHashPrefix(unpadded, host_key)
                    IN  [called |-> TRUE,
                         ret |-> CatchToNull(Utf8Decode(value)),
                         cipherOps |-> 1,
                         decrypted |-> decrypted,
                         unpadded |-> unpadded,
                         stripped |-> Len(value) # Len(unpadded)]

----------------------------------------------------------------------------
(* transformCookieRow                                                      *)

\* Numbers beyond 32 bits are kept in two limbs: <<hi, lo>> stands for
\* hi * 10^5 + lo with 0 <= lo < 10^5 (the sign is hi's).  expires_utc is
\* <<hi, lo, micros>>: (hi * 10^5 + lo) seconds and 0 <= micros < 10^6
\* microseconds since 1601.
LIMB == 10 ^ 5
\* 11644473600
CHROME_EPOCH_DIFF_SECONDS == <<116444, 73600>>

IsPositive(expires_utc) ==
    \/ expires_utc[1] > 0
    \/ expires_utc[1] = 0 /\ (expires_utc[2] > 0 \/ expires_utc[3] > 0)

\* A JavaScript number is an IEEE 754 double: PRECISION significant bits,
\* every operation rounded to the nearest such number, ties to even.  A
\* natural number is kept as its bits, most significant first, and a double
\* as [neg, bits, scale], standing for (-1)^neg * bits * 2^(-scale).
PRECISION == 53
MICROSECONDS_PER_SECOND == 10 ^ 6

Zeros(n) == [i \in 1..n |-> 0]
\* without its leading zeros
StripZeros(b) ==
    IF \A i \in 1..Len(b) : b[i] = 0 THEN << >>
    ELSE LET first == CHOOSE i \in 1..Len(b) : b[i] = 1 /\ \A j \in 1..(i - 1) : b[j] = 0
         IN  SubSeq(b, first, Len(b))
\* the width low bits of v
BitsOf(v, width) == [i \in 1..width |-> (v \div 2 ^ (width - i)) % 2]
\* the number of width bits
ValueOf(b, width) ==
    LET RECURSIVE Sum(_)
        Sum(i) == IF i = 0 THEN 0 ELSE 2 * Sum(i - 1) + b[i]
    IN  Sum(width)
\* Long numbers are taken ten bits at a time.
CHUNK == 2 ^ 10
\* the bits of hi * 10^5 + lo, in whole chunks
RECURSIVE ChunksOfLimbs(_, _)
ChunksOfLimbs(hi, lo) ==
    IF hi = 0 /\ lo = 0 THEN << >>
    ELSE LET low == lo + (hi % CHUNK) * LIMB
         IN  ChunksOfLimbs(hi \div CHUNK, low \div CHUNK) \o BitsOf(low % CHUNK, 10)
BitsOfLimbs(hi, lo) == StripZeros(ChunksOfLimbs(hi, lo))
\* and back: <<hi, lo>> of the first n chunks of b
RECURSIVE LimbsOfChunks(_, _)
LimbsOfChunks(b, n) ==
    IF n = 0 THEN <<0, 0>>
    ELSE LET first == LimbsOfChunks(b, n - 1)
             low == CHUNK * first[2] + ValueOf(SubSeq(b, 10 * n - 9, 10 * n), 10)
         IN  <<CHUNK * first[1] + low \div LIMB, low % LIMB>>
LimbsOfBits(b) ==
    LET chunks == (Len(b) + 9) \div 10
    IN  LimbsOfChunks(Zeros(10 * chunks - Len(b)) \o b, chunks)
\* b + 1
Increment(b) ==
    IF \A i \in 1..Len(b) : b[i] = 1 THEN <<1>> \o Zeros(Len(b))
    ELSE LET last == CHOOSE i \in 1..Len(b) :
                        b[i] = 0 /\ \A j \in (i + 1)..Len(b) : b[j] = 1
         IN  SubSeq(b, 1, last - 1) \o <<1>> \o Zeros(Len(b) - last)
\* the borrow into bit i of a - b: the bits after i of a are less than those of b
Borrow(a, b, i) ==
    \E j \in (i + 1)..Len(a) : a[j] < b[j] /\ \A k \in (i + 1)..(j - 1) : a[k] = b[k]
\* a - b for a >= b of the same length
SubtractBits(a, b) ==
    [i \in 1..Len(a) |-> (2 + a[i] - b[i] - (IF Borrow(a, b, i) THEN 1 ELSE 0)) % 2]
PadTo(b, n) == Zeros(n - Len(b)) \o b
\* a < b, for bits without leading zeros
LessBits(a, b) ==
    \/ Len(a) < Len(b)
    \/ /\ Len(a) = Len(b)
       /\ \E i \in 1..Len(a) : a[i] < b[i] /\ \A j \in 1..(i - 1) : a[j] = b[j]

\* chunks chunks of the bits of r / 10^6 after the binary point, r < 10^6;
\* rem is what the bits leave over
RECURSIVE Expand(_, _)
Expand(r, chunks) ==
    IF chunks = 0 THEN [bits |-> << >>, rem |-> r]
    ELSE LET scaled == CHUNK * r
             rest == Expand(scaled % MICROSECONDS_PER_SECOND, chunks - 1)
         IN  [bits |-> BitsOf(scaled \div MICROSECONDS_PER_SECOND, 10) \o rest.bits,
              rem |-> rest.rem]

\* the nearest double of (-1)^sign * (mantissa + sticky) * 2^(-exponent),
\* where sticky says that something below the last bit of mantissa is left
RoundSticky(sign, mantissa, exponent, sticky) ==
    LET len == Len(mantissa) IN
    IF len <= PRECISION THEN [neg |-> sign, bits |-> mantissa, scale |-> exponent]
    ELSE LET kept == SubSeq(mantissa, 1, PRECISION)
             roundUp == /\ mantissa[PRECISION + 1] = 1
                        /\ \/ kept[PRECISION] = 1
                           \/ sticky
                           \/ \E j \in (PRECISION + 2)..len : mantissa[j] = 1
         IN  [neg |-> sign,
              bits |-> IF roundUp THEN Increment(kept) ELSE kept,
              scale |-> exponent - (len - PRECISION)]
RoundToDouble(sign, mantissa, exponent) == RoundSticky(sign, mantissa, exponent, FALSE)

\* expires_utc / MICROSECONDS_PER_SECOND, for expires_utc >= 0: eight chunks
\* after the binary point reach past PRECISION significant bits whenever
\* the division leaves a remainder
DivideByMicros(expires_utc) ==
    LET whole == BitsOfLimbs(expires_utc[1], expires_utc[2])
        e == IF expires_utc[3] = 0 THEN [bits |-> << >>, rem |-> 0]
             ELSE Expand(expires_utc[3], 8)
    IN  RoundSticky(FALSE, StripZeros(whole \o e.bits), Len(e.bits), e.rem # 0)

\* q - CHROME_EPOCH_DIFF_SECONDS, for a double q >= 0
SubtractEpoch(q) ==
    LET c == StripZeros(BitsOfLimbs(CHROME_EPOCH_DIFF_SECONDS[1], CHROME_EPOCH_DIFF_SECONDS[2])
                          \o Zeros(q.scale))
        n == Max(Len(q.bits), Len(c))
        below == LessBits(q.bits, c)
        diff == IF below THEN SubtractBits(PadTo(c, n), PadTo(q.bits, n))
                ELSE SubtractBits(PadTo(q.bits, n), PadTo(c, n))
    IN  RoundToDouble(below, StripZeros(diff), q.scale)

\* Math.floor of a double, as <<hi, lo>>
MathFloor(x) ==
    LET digits == Len(x.bits)
        integer == IF x.scale <= 0 THEN x.bits \o Zeros(0 - x.scale)
                   ELSE SubSeq(x.bits, 1, digits - x.scale)
        fraction ==
            x.scale > 0 /\ \E j \in Max(1, digits - x.scale + 1)..digits : x.bits[j] = 1
        rounded == IF x.neg /\ fraction THEN Increment(integer) ELSE integer
        v == LimbsOfBits(rounded)
    IN  IF ~x.neg THEN v
        ELSE IF v[2] = 0 THEN <<0 - v[1], 0>>
        ELSE <<0 - v[1] - 1, LIMB - v[2]>>

\* Math.floor(expires_utc / MICROSECONDS_PER_SECOND - CHROME_EPOCH_DIFF_SECONDS)
ToUnixSeconds(expires_utc) ==
    MathFloor(SubtractEpoch(DivideByMicros(expires_utc)))

ExpiresTimestamp(expires_utc) ==
    IF IsPositive(expires_utc) THEN ToUnixSeconds(expires_utc) ELSE NULL

\* row.value || ""
ValueOrEmpty(value) == IF value = NULL THEN << >> ELSE value

\* faulty variant: the plaintext is not looked at before decrypting
NeedsDecrypt_ignoringValue(value, encrypted_value) ==
    /\ encrypted_value # NULL
    /\ Len(encrypted_value) > 0

\* faulty variant: a zero-length payload counts as a payload
NeedsDecrypt_noLengthCheck(value, encrypted_value) ==
    /\ Len(value) = 0
    /\ encrypted_value # NULL

\* !value && row.encrypted_value && row.encrypted_value.length > 0
NeedsDecrypt(value, encrypted_value) ==
    /\ Len(value) = 0
    /\ encrypted_value # NULL
    /\ Len(encrypted_value) > 0

\* if (derivedKey): a Buffer is truthy whatever its length
HasKey(key) == key # NULL

\* !decrypted, for decrypted a string or null
IsFalsy(decrypted) == decrypted = NULL \/ Len(decrypted) = 0

MakeCookie(r, value) ==
    [name     |-> r.name,
     value    |-> value,
     domain   |-> r.host_key,
     path     |-> r.path,
     expires  |-> ExpiresTimestamp(r.expires_utc),
     secure   |-> r.is_secure # 0,
     httpOnly |-> r.is_httponly # 0]

NoCookie ==
    [name |-> << >>, value |-> << >>, domain |-> << >>, path |-> << >>,
     expires |-> NULL, secure |-> FALSE, httpOnly |-> FALSE]

\* The result: null is TRUE when the function returned null, otherwise cookie
\* is the Cookie returned; call is what its decryptCookieValue call did
\* (NoCall when it made none).
Dropped(call) ==
    [thrown |-> FALSE, null |-> TRUE, cookie |-> NoCookie, call |-> call]
Emitted(r, value, call) ==
    [thrown |-> FALSE, null |-> FALSE, cookie |-> MakeCookie(r, value), call |-> call]
\* an exception of decryptCookieValue would leave transformCookieRow as well
Rethrown(call) ==
    [thrown |-> TRUE, null |-> FALSE, cookie |-> NoCookie, call |-> call]

\* faulty variant: a record that cannot be decrypted is emitted with an empty value
TransformCookieRow_emitEmptyOnFailure(r, key) ==
    LET value == ValueOrEmpty(r.value) IN
    IF NeedsDecrypt(value, r.encrypted_value)
      THEN IF HasKey(key)
             THEN LET call == DecryptCookieValue(r.encrypted_value, key, r.host_key)
                  IN  IF call.ret = THROWN THEN Rethrown(call)
                      ELSE IF IsFalsy(call.ret) THEN Emitted(r, << >>, call)
                      ELSE Emitted(r, call.ret, call)
             ELSE Emitted(r, << >>, NoCall)
      ELSE Emitted(r, value, NoCall)

TransformCookieRow(r, key) ==
    LET value == ValueOrEmpty(r.value) IN
    IF NeedsDecrypt(value, r.encrypted_value)
      THEN IF HasKey(key)
             THEN LET call == DecryptCookieValue(r.encrypted_value, key, r.host_key)
                  IN  IF call.ret = THROWN THEN Rethrown(call)
                      ELSE IF IsFalsy(call.ret) THEN Dropped(call)
                      ELSE Emitted(r, call.ret, call)
             ELSE Dropped(NoCall)
      ELSE Emitted(r, value, NoCall)

----------------------------------------------------------------------------
(* normalizeDomain, isDomainMatch, generateDomainMatchers                  *)

DOT == <<46>>
SLASH == <<47>>
\* 'http://' and 'https://': the two strings /^https?:\/\// matches
SCHEME_HTTP == <<104, 116, 116, 112, 58, 47, 47>>
SCHEME_HTTPS == <<104, 116, 116, 112, 115, 58, 47, 47>>
\* 'www.'
WWW == <<119, 119, 119, 46>>

\* String.prototype.toLowerCase on the code units of ASCII and Latin-1
LowerUnit(c) ==
    IF c >= 65 /\ c <= 90 THEN c + 32
    ELSE IF c >= 192 /\ c <= 222 /\ c # 215 THEN c + 32
    ELSE c
ToLowerCase(s) == [i \in 1..Len(s) |-> LowerUnit(s[i])]

\* WhiteSpace and LineTerminator of ECMAScript, which trim() removes
IsWhiteSpace(c) ==
    c \in {9, 10, 11, 12, 13, 32, 160, 5760, 8232, 8233, 8239, 8287, 12288, 65279}
        \cup 8192..8202
RECURSIVE TrimStart(_)
TrimStart(s) ==
    IF Len(s) > 0 /\ IsWhiteSpace(s[1]) THEN TrimStart(Tail(s)) ELSE s
RECURSIVE TrimEnd(_)
TrimEnd(s) ==
    IF Len(s) > 0 /\ IsWhiteSpace(s[Len(s)])
      THEN TrimEnd(SubSeq(s, 1, Len(s) - 1)) ELSE s
Trim(s) == TrimEnd(TrimStart(s))

StartsWith(s, p) == Len(s) >= Len(p) /\ SubSeq(s, 1, Len(p)) = p
EndsWith(s, p) == Len(s) >= Len(p) /\ SubSeq(s, Len(s) - Len(p) + 1, Len(s)) = p
DropFirst(s, n) == SubSeq(s, n + 1, Len(s))
\* s.includes(t)
Includes(s, t) ==
    \E i \in 1..(Len(s) - Len(t) + 1) : SubSeq(s, i, i + Len(t) - 1) = t

\* .replace(/^https?:\/\//, ""): one match at the start, removed once
StripScheme(s) ==
    IF StartsWith(s, SCHEME_HTTPS) THEN DropFirst(s, Len(SCHEME_HTTPS))
    ELSE IF StartsWith(s, SCHEME_HTTP) THEN DropFirst(s, Len(SCHEME_HTTP))
    ELSE s
\* .replace(/\/$/, ""): one '/' at the very end, removed once
StripTrailingSlash(s) ==
    IF EndsWith(s, SLASH) THEN SubSeq(s, 1, Len(s) - 1) ELSE s
\* .replace(/^www\./, "")
StripWww(s) == IF StartsWith(s, WWW) THEN DropFirst(s, Len(WWW)) ELSE s

\* faulty variant: the trailing '/' is looked for before the string is trimmed
NormalizeDomain_slashBeforeTrim(domain) ==
    LET cleaned == StripWww(StripScheme(Trim(StripTrailingSlash(ToLowerCase(domain)))))
    IN  IF Includes(cleaned, DOT) THEN cleaned ELSE NULL

\* faulty variant: the result keeps the case of the input
NormalizeDomain_keepCase(domain) ==
    LET cleaned == StripWww(StripTrailingSlash(StripScheme(Trim(domain))))
    IN  IF Includes(cleaned, DOT) THEN cleaned ELSE NULL

\* faulty variant: 'www.' is looked for before the scheme is removed
NormalizeDomain_wwwBeforeScheme(domain) ==
    LET cleaned == StripTrailingSlash(StripScheme(StripWww(Trim(ToLowerCase(domain)))))
    IN  IF Includes(cleaned, DOT) THEN cleaned ELSE NULL

NormalizeDomain(domain) ==
    LET cleaned == StripWww(StripTrailingSlash(StripScheme(Trim(ToLowerCase(domain)))))
    IN  IF Includes(cleaned, DOT) THEN cleaned ELSE NULL

\* faulty variant: a host key below the domain matches as well
IsDomainMatch_subdomains(hostKey, normalizedDomain) ==
    LET key == ToLowerCase(hostKey)
    IN  key = normalizedDomain \/ EndsWith(key, DOT \o normalizedDomain)

IsDomainMatch(hostKey, normalizedDomain) ==
    LET key == ToLowerCase(hostKey)
    IN  key = normalizedDomain \/ key = DOT \o normalizedDomain

\* domain.split("."): "" gives one empty label
RECURSIVE SplitFrom(_, _, _, _)
SplitFrom(s, sep, i, label) ==
    IF i > Len(s) THEN <<label>>
    ELSE IF <<s[i]>> = sep THEN <<label>> \o SplitFrom(s, sep, i + 1, << >>)
    ELSE SplitFrom(s, sep, i + 1, Append(label, s[i]))
Split(s, sep) == SplitFrom(s, sep, 1, << >>)
\* parts.join(".")
RECURSIVE Join(_, _)
Join(labels, sep) ==
    IF Len(labels) = 0 THEN << >>
    ELSE IF Len(labels) = 1 THEN labels[1]
    ELSE labels[1] \o sep \o Join(Tail(labels), sep)
\* parts.slice(i), i counted from 0
SliceParts(labels, i) == SubSeq(labels, i + 1, Len(labels))

\* faulty variant of the loop: every parent is pushed, the bare TLD included
RECURSIVE ParentMatchers_withTld(_, _, _)
ParentMatchers_withTld(labels, i, matchers) ==
    IF ~(i < Len(labels)) THEN matchers
    ELSE ParentMatchers_withTld(labels, i + 1,
             Append(matchers, DOT \o Join(SliceParts(labels, i), DOT)))

\* for (let i = 1; i < parts.length; i++) { ... }
RECURSIVE ParentMatchers(_, _, _)
ParentMatchers(labels, i, matchers) ==
    IF ~(i < Len(labels)) THEN matchers
    ELSE LET parentDomain == Join(SliceParts(labels, i), DOT)
         IN  ParentMatchers(labels, i + 1,
                 IF Includes(parentDomain, DOT)
                   THEN Append(matchers, DOT \o parentDomain)
                   ELSE matchers)

\* faulty variant: the bare TLD is emitted as a parent matcher
GenerateDomainMatchers_withTld(domain) ==
    ParentMatchers_withTld(Split(domain, DOT), 1, <<domain, DOT \o domain>>)

\* faulty variant: the parents are emitted without the leading '.'
RECURSIVE ParentMatchers_bare(_, _, _)
ParentMatchers_bare(labels, i, matchers) ==
    IF ~(i < Len(labels)) THEN matchers
    ELSE LET parentDomain == Join(SliceParts(labels, i), DOT)
         IN  ParentMatchers_bare(labels, i + 1,
                 IF Includes(parentDomain, DOT)
                   THEN Append(matchers, parentDomain)
                   ELSE matchers)
GenerateDomainMatchers_bareParents(domain) ==
    ParentMatchers_bare(Split(domain, DOT), 1, <<domain, DOT \o domain>>)

\* faulty variant: the loop starts at i = 0 and emits '.' + domain again
GenerateDomainMatchers_fromZero(domain) ==
    ParentMatchers(Split(domain, DOT), 0, <<domain, DOT \o domain>>)

GenerateDomainMatchers(domain) ==
    ParentMatchers(Split(domain, DOT), 1, <<domain, DOT \o domain>>)

\* new Set(generateDomainMatchers(normalizedDomain)) and Set.prototype.has
MatcherSet(matchers) == {matchers[i] : i \in 1..Len(matchers)}
SetHas(matchers, host_key) == host_key \in MatcherSet(matchers)

----------------------------------------------------------------------------
(* getBrowserConfig, getCookieDbPath, deriveKey, createKeychainFetcher     *)

\* 'chrome', 'Google Chrome', 'Google/Chrome', 'Chrome', 'Chrome Safe Storage'
CHROME_CONFIG ==
    [id |-> <<99, 104, 114, 111, 109, 101>>,
     name |-> <<71, 111, 111, 103, 108, 101, 32, 67, 104, 114, 111, 109, 101>>,
     macOsBaseDir |-> <<71, 111, 111, 103, 108, 101, 47, 67, 104, 114, 111, 109, 101>>,
     keyringAccount |-> <<67, 104, 114, 111, 109, 101>>,
     keyringService |-> <<67, 104, 114, 111, 109, 101, 32, 83, 97, 102, 101, 32, 83, 116, 111, 114, 97, 103, 101>>,
     supportsProfiles |-> TRUE]
\* 'chromium', 'Chromium', 'Chromium', 'Chromium', 'Chromium Safe Storage'
CHROMIUM_CONFIG ==
    [id |-> <<99, 104, 114, 111, 109, 105, 117, 109>>,
     name |-> <<67, 104, 114, 111, 109, 105, 117, 109>>,
     macOsBaseDir |-> <<67, 104, 114, 111, 109, 105, 117, 109>>,
     keyringAccount |-> <<67, 104, 114, 111, 109, 105, 117, 109>>,
     keyringService |-> <<67, 104, 114, 111, 109, 105, 117, 109, 32, 83, 97, 102, 101, 32, 83, 116, 111, 114, 97, 103, 101>>,
     supportsProfiles |-> TRUE]
CHROMIUM_BROWSERS_CONFIG_MACOS == <<CHROME_CONFIG, CHROMIUM_CONFIG>>
SUPPORTED_CHROMIUM_BROWSERS_MACOS ==
    [i \in 1..Len(CHROMIUM_BROWSERS_CONFIG_MACOS) |-> CHROMIUM_BROWSERS_CONFIG_MACOS[i].id]

\* 'Unsupported browser: ', '. Supported: ', ', '
MSG_UNSUPPORTED == <<85, 110, 115, 117, 112, 112, 111, 114, 116, 101, 100, 32, 98, 114, 111, 119, 115, 101, 114, 58, 32>>
MSG_SUPPORTED == <<46, 32, 83, 117, 112, 112, 111, 114, 116, 101, 100, 58, 32>>
COMMA_SPACE == <<44, 32>>
\* 'This function is designed for macOS only.'
MSG_MACOS_ONLY == <<84, 104, 105, 115, 32, 102, 117, 110, 99, 116, 105, 111, 110, 32, 105, 115, 32, 100, 101, 115, 105, 103, 110, 101, 100, 32, 102, 111, 114, 32, 109, 97, 99, 79, 83, 32, 111, 110, 108, 121, 46>>
\* 'Cookies database not found for ', ' (Profile: ', ')'
MSG_NOT_FOUND_FOR == <<67, 111, 111, 107, 105, 101, 115, 32, 100, 97, 116, 97, 98, 97, 115, 101, 32, 110, 111, 116, 32, 102, 111, 117, 110, 100, 32, 102, 111, 114, 32>>
MSG_PROFILE == <<32, 40, 80, 114, 111, 102, 105, 108, 101, 58, 32>>
MSG_CLOSE_PAREN == <<41>>
\* 'Cookies database not found at '
MSG_NOT_FOUND_AT == <<67, 111, 111, 107, 105, 101, 115, 32, 100, 97, 116, 97, 98, 97, 115, 101, 32, 110, 111, 116, 32, 102, 111, 117, 110, 100, 32, 97, 116, 32>>

\* the outcome of a call that may throw: the value returned or the message
Returned(v) == [thrown |-> FALSE, value |-> v, error |-> << >>]
Throws(message) == [thrown |-> TRUE, value |-> NULL, error |-> message]

\* CHROMIUM_BROWSERS_CONFIG_MACOS.find((b) => b.id === browserId)
\* the index of the first match, 0 for undefined
RECURSIVE FindIndex(_, _, _)
FindIndex(configs, browserId, i) ==
    IF i > Len(configs) THEN 0
    ELSE IF configs[i].id = browserId THEN i
    ELSE FindIndex(configs, browserId, i + 1)

\* faulty variant: an unknown id is given the first configuration
GetBrowserConfig_defaulting(browserId) ==
    LET found == FindIndex(CHROMIUM_BROWSERS_CONFIG_MACOS, browserId, 1)
    IN  IF found = 0 THEN Returned(CHROME_CONFIG)
        ELSE Returned(CHROMIUM_BROWSERS_CONFIG_MACOS[found])

GetBrowserConfig(browserId) ==
    LET found == FindIndex(CHROMIUM_BROWSERS_CONFIG_MACOS, browserId, 1)
    IN  IF found = 0
          THEN Throws(MSG_UNSUPPORTED \o browserId \o MSG_SUPPORTED
                        \o Join(SUPPORTED_CHROMIUM_BROWSERS_MACOS, COMMA_SPACE))
          ELSE Returned(CHROMIUM_BROWSERS_CONFIG_MACOS[found])

\* paths are the components path.join puts together
\* os.homedir() ('/Users/testuser' in the tests), 'Library', 'Application Support', 'Cookies'
HOME_DIR == <<47, 85, 115, 101, 114, 115, 47, 116, 101, 115, 116, 117, 115, 101, 114>>
DIR_LIBRARY == <<76, 105, 98, 114, 97, 114, 121>>
DIR_APP_SUPPORT == <<65, 112, 112, 108, 105, 99, 97, 116, 105, 111, 110, 32, 83, 117, 112, 112, 111, 114, 116>>
FILE_COOKIES == <<67, 111, 111, 107, 105, 101, 115>>
GetBrowserBasePath(config) == <<HOME_DIR, DIR_LIBRARY, DIR_APP_SUPPORT, config.macOsBaseDir>>

\* faulty variant: the profile is never part of the path
GetCookieDbPath_ignoringProfile(basePath, profileName, supportsProfiles) ==
    basePath \o <<FILE_COOKIES>>

GetCookieDbPath(basePath, profileName, supportsProfiles) ==
    IF supportsProfiles /\ Len(profileName) > 0
      THEN basePath \o <<profileName, FILE_COOKIES>>
      ELSE basePath \o <<FILE_COOKIES>>

\* 'saltysalt'
SALT == <<115, 97, 108, 116, 121, 115, 97, 108, 116>>
ITERATIONS == 1003
\* crypto.pbkdf2Sync is node:crypto; the model keeps that the key is a
\* function of password, salt and iteration count and has keylen bytes
Pbkdf2Sync(password, salt, iterations, keylen) ==
    [i \in 1..keylen |->
        (WeightedSum(password \o salt, i, 1) + iterations * i + Len(password)) % 256]
\* faulty variant: no salt
DeriveKey_unsalted(password) == Pbkdf2Sync(password, << >>, ITERATIONS, AES_KEY_LENGTH)

DeriveKey(password) == Pbkdf2Sync(password, SALT, ITERATIONS, AES_KEY_LENGTH)

\* faulty variant: stdout is taken as it is
KeychainResult_untrimmed(error, stdout) ==
    IF error THEN NULL ELSE Utf8Encode(stdout)

\* the callback of execFile in createKeychainFetcher: null on an error,
\* Buffer.from(stdout.trim(), "utf-8") otherwise
KeychainResult(error, stdout) ==
    IF error THEN NULL ELSE Utf8Encode(Trim(stdout))

\* faulty variant: without a password the key of the empty password is used
DerivedKeyFor_always(keychainPassword) ==
    DeriveKey(IF keychainPassword # NULL THEN keychainPassword ELSE << >>)

\* keychainPassword ? deriveKey(keychainPassword) : null; a Buffer is truthy
\* whatever its length
DerivedKeyFor(keychainPassword) ==
    IF keychainPassword # NULL THEN DeriveKey(keychainPassword) ELSE NULL

----------------------------------------------------------------------------
(* getChromiumCookiesMacOS: the pieces of its body                         *)

\* a string in a condition: undefined, null and "" are falsy
Truthy(s) == s # NULL /\ Len(s) > 0

\* const normalizedDomain = domainFilter ? normalizeDomain(domainFilter) : null
NormalizedFilter(filter) ==
    IF Truthy(filter) THEN NormalizeDomain(filter) ELSE NULL

\* faulty variant: a filter that fails normalization matches nothing
DomainMatchersFor_rejecting(filter) ==
    LET normalized == NormalizedFilter(filter)
    IN  IF Truthy(filter) /\ ~Truthy(normalized) THEN << >>
        ELSE IF Truthy(normalized) THEN GenerateDomainMatchers(normalized)
        ELSE NULL

\* let domainMatchers = null; if (domainFilter && !normalizedDomain) { warn }
\* else if (normalizedDomain) { domainMatchers = new Set(...) }
DomainMatchersFor(filter) ==
    LET normalized == NormalizedFilter(filter)
    IN  IF Truthy(filter) /\ ~Truthy(normalized) THEN NULL
        ELSE IF Truthy(normalized) THEN GenerateDomainMatchers(normalized)
        ELSE NULL

\* faulty variant: host keys below a matcher pass as well
PassesFilter_subdomains(matchers, r) ==
    matchers = NULL
        \/ \E i \in 1..Len(matchers) : EndsWith(r.host_key, matchers[i])

\* !domainMatchers || domainMatchers.has(row.host_key)
PassesFilter(matchers, r) == matchers = NULL \/ SetHas(matchers, r.host_key)

Reverse(s) == [i \in 1..Len(s) |-> s[Len(s) + 1 - i]]

\* the outcome of the try block: the cookies returned or the error thrown
Completed(cookies) == [settled |-> FALSE, thrown |-> FALSE, cookies |-> cookies, error |-> << >>]
Failed(message) == [settled |-> FALSE, thrown |-> TRUE, cookies |-> << >>, error |-> message]
\* an exception out of transformCookieRow
MSG_TRANSFORM == <<116, 114, 97, 110, 115, 102, 111, 114, 109, 67, 111, 111, 107, 105, 101, 82, 111, 119>>

\* rows.filter(...).map((row) => transformCookieRow(row, derivedKey))
Mapped(rows, matchers, key) ==
    LET filtered == SelectSeq(rows, LAMBDA r : PassesFilter(matchers, r))
    IN  [i \in 1..Len(filtered) |-> TransformCookieRow(filtered[i], key)]
\* .filter((cookie) => cookie !== null)
NonNull(mapped) ==
    LET kept == SelectSeq(mapped, LAMBDA t : ~t.null)
    IN  [i \in 1..Len(kept) |-> kept[i].cookie]
AnyThrown(mapped) == \E i \in 1..Len(mapped) : mapped[i].thrown

\* faulty variant: a row that cannot be decrypted fails the whole call
CookiesOf_strict(rows, matchers, key) ==
    LET mapped == Mapped(rows, matchers, key)
    IN  IF AnyThrown(mapped) \/ \E i \in 1..Len(mapped) : mapped[i].null
          THEN Failed(MSG_TRANSFORM)
        ELSE Completed(NonNull(mapped))

\* faulty variant: the cookies come out in the opposite order
CookiesOf_reversed(rows, matchers, key) ==
    LET mapped == Mapped(rows, matchers, key)
    IN  IF AnyThrown(mapped) THEN Failed(MSG_TRANSFORM)
        ELSE Completed(Reverse(NonNull(mapped)))

CookiesOf(rows, matchers, key) ==
    LET mapped == Mapped(rows, matchers, key)
    IN  IF AnyThrown(mapped) THEN Failed(MSG_TRANSFORM)
        ELSE Completed(NonNull(mapped))

----------------------------------------------------------------------------
(* Inputs *)

\* '.example.com'
HOST_DOT_EXAMPLE == <<46, 101, 120, 97, 109, 112, 108, 101, 46, 99, 111, 109>>
\* 'example.com'
HOST_EXAMPLE == <<101, 120, 97, 109, 112, 108, 101, 46, 99, 111, 109>>
\* '.different.com'
HOST_DOT_DIFFERENT == <<46, 100, 105, 102, 102, 101, 114, 101, 110, 116, 46, 99, 111, 109>>
\* 'é.co'
HOST_NON_ASCII == <<233, 46, 99, 111>>
\* '1234567890123456'
KEY_A == <<49, 50, 51, 52, 53, 54, 55, 56, 57, 48, 49, 50, 51, 52, 53, 54>>
\* 'abcdefghijklmnop'
KEY_B == <<97, 98, 99, 100, 101, 102, 103, 104, 105, 106, 107, 108, 109, 110, 111, 112>>
\* 'key'
KEY_SHORT == <<107, 101, 121>>
\* 'test cookie value'
TEXT_COOKIE == <<116, 101, 115, 116, 32, 99, 111, 111, 107, 105, 101, 32, 118, 97, 108, 117, 101>>
\* 'short'
TEXT_SHORT == <<115, 104, 111, 114, 116>>
\* 'test'
TEXT_TEST == <<116, 101, 115, 116>>
\* 'sixteen chars ok'
TEXT_BLOCK == <<115, 105, 120, 116, 101, 101, 110, 32, 99, 104, 97, 114, 115, 32, 111, 107>>
\* 'abc123'
PLAIN_VALUE == <<97, 98, 99, 49, 50, 51>>
\* 'session_id'
COOKIE_NAME == <<115, 101, 115, 115, 105, 111, 110, 95, 105, 100>>
\* '/'
COOKIE_PATH == <<47>>
\* 'v1'
RAW_V1 == <<118, 49>>
\* 'v11somedata'
RAW_V11 == <<118, 49, 49, 115, 111, 109, 101, 100, 97, 116, 97>>
\* 'v10invaliddata'
RAW_INVALID == <<118, 49, 48, 105, 110, 118, 97, 108, 105, 100, 100, 97, 116, 97>>


\* createV10EncryptedValue of the tests: PKCS7 padding, then the cipher
Pkcs7Pad(data) ==
    LET paddingLength == BLOCK_SIZE - (Len(data) % BLOCK_SIZE)
    IN  data \o Fill(paddingLength, paddingLength)
CreateV10EncryptedValue(plaintext, key, hash) ==
    V10_PREFIX \o CipherNoPadding(Pkcs7Pad(hash \o Utf8Encode(plaintext)), key, IV)
HashOf(host_key) == Sha256(Utf8Encode(host_key))
DUMMY_HASH == Fill(HASH_PREFIX_LENGTH, 0)

\* the tests' hand-made padding: zero bytes up to the block, the last byte p
ManualPad(data, p) ==
    data \o Fill(BLOCK_SIZE - 1 - (Len(data) % BLOCK_SIZE), 0) \o <<p>>
EncryptPadded(paddedData, key) == V10_PREFIX \o CipherNoPadding(paddedData, key, IV)

\* Bounds of the input space
MaxPlainLen == 2
MaxKeyLen == 17
MaxJunkLen == 17
MaxPadByte == 20

\* 'x', U+00E9, U+20AC and U+1F600: one to four bytes of UTF-8
Chars == {<<120>>, <<233>>, <<8364>>, <<55357, 56832>>}
RECURSIVE Texts(_)
Texts(n) ==
    IF n = 0 THEN {<< >>}
    ELSE Texts(n - 1) \cup {t \o c : t \in Texts(n - 1), c \in Chars}
Plaintexts == Texts(MaxPlainLen) \cup {TEXT_COOKIE, TEXT_SHORT, TEXT_BLOCK}

HostKeys == {HOST_DOT_EXAMPLE, HOST_EXAMPLE, HOST_DOT_DIFFERENT, HOST_NON_ASCII}
CipherKeys == {KEY_A, KEY_B}
KeysByLength == {Fill(n, 107) : n \in 0..MaxKeyLen}
AllKeys ==
    CipherKeys \cup KeysByLength \cup {KEY_SHORT, Fill(24, 107), Fill(32, 107)}

\* payloads made by encryption, with how they were made
ModernCases ==
    {[payload |-> CreateV10EncryptedValue(pt, k, HashOf(d)),
      key |-> k, host |-> d, plaintext |-> pt] :
        pt \in Plaintexts, k \in CipherKeys, d \in HostKeys}
LegacyCases ==
    {[payload |-> CreateV10EncryptedValue(pt, KEY_A, h),
      key |-> KEY_A, host |-> NULL, plaintext |-> pt] :
        pt \in {TEXT_COOKIE, TEXT_SHORT}, h \in {DUMMY_HASH, << >>}}
PadBytes == 0..MaxPadByte \cup {255}
PaddedBodies ==
    {HashOf(HOST_EXAMPLE) \o Utf8Encode(TEXT_TEST),
     Utf8Encode(TEXT_TEST),
     SubSeq(HashOf(HOST_EXAMPLE), 1, HASH_PREFIX_LENGTH - 1),
     DUMMY_HASH \o Utf8Encode(TEXT_TEST)}
PaddedCases ==
    {[payload |-> EncryptPadded(ManualPad(b, p), KEY_A),
      key |-> KEY_A, padded |-> ManualPad(b, p)] :
        b \in PaddedBodies, p \in PadBytes}
EncryptedPayloads ==
    {c.payload : c \in ModernCases} \cup {c.payload : c \in LegacyCases}
        \cup {c.payload : c \in PaddedCases}

\* payloads that are not the output of the cipher
Junk(n) == V10_PREFIX \o Fill(n, 105)
RawPayloads ==
    {NULL, << >>, RAW_V1, RAW_V11, RAW_INVALID, <<86, 49, 48>> \o Fill(16, 105),
     <<118, 49, 255>> \o Fill(16, 105), <<255, 118, 49, 48>> \o Fill(16, 105)}
        \cup {Junk(n) : n \in 0..MaxJunkLen}

----------------------------------------------------------------------------
(* Domain inputs: a string is put together from whitespace, up to          *)
(* MaxPrefixes prefixes (schemes and 'www.'), a host, up to MaxSlashes      *)
(* '/' and whitespace, in lower or upper case.                              *)

\* 'github.com'
DOMAIN_GITHUB == <<103, 105, 116, 104, 117, 98, 46, 99, 111, 109>>
\* 'api.github.com'
DOMAIN_API_GITHUB == <<97, 112, 105, 46>> \o DOMAIN_GITHUB
\* 'sub.example.com'
DOMAIN_SUB_EXAMPLE == <<115, 117, 98, 46>> \o HOST_EXAMPLE
\* 'api.v2.service.example.com'
DOMAIN_DEEP ==
    <<97, 112, 105, 46, 118, 50, 46, 115, 101, 114, 118, 105, 99, 101, 46>> \o HOST_EXAMPLE
\* 'bbc.co.uk'
DOMAIN_BBC == <<98, 98, 99, 46, 99, 111, 46, 117, 107>>
\* 'localhost'
DOMAIN_LOCALHOST == <<108, 111, 99, 97, 108, 104, 111, 115, 116>>
\* 'example.com:8080'
DOMAIN_PORT == HOST_EXAMPLE \o <<58, 56, 48, 56, 48>>
\* 'com'
DOMAIN_COM == <<99, 111, 109>>
\* '.other.com'
HOST_DOT_OTHER == <<46, 111, 116, 104, 101, 114, 46, 99, 111, 109>>

MaxPrefixes == 2
MaxSlashes == 2

UpperUnit(c) == IF c >= 97 /\ c <= 122 THEN c - 32 ELSE c
ToUpperCase(s) == [i \in 1..Len(s) |-> UpperUnit(s[i])]

Prefixes == {SCHEME_HTTP, SCHEME_HTTPS, WWW}
RECURSIVE PrefixLists(_)
PrefixLists(n) ==
    IF n = 0 THEN {<< >>}
    ELSE PrefixLists(n - 1) \cup {Append(l, t) : l \in PrefixLists(n - 1), t \in Prefixes}
\* hosts: none of them begins with a prefix or ends with '/'; the last three
\* are 'github.com ' (whitespace that '/' can follow), '.github.com' and
\* '.com' (an empty first label)
Hosts ==
    {DOMAIN_GITHUB, DOMAIN_API_GITHUB, DOMAIN_SUB_EXAMPLE, DOMAIN_DEEP, DOMAIN_BBC,
     DOMAIN_LOCALHOST, DOMAIN_PORT, DOMAIN_COM,
     DOMAIN_GITHUB \o <<32>>, DOT \o DOMAIN_GITHUB, DOT \o DOMAIN_COM}
Blanks == {<< >>, <<32, 9>>}

DomainParts ==
    [lead : Blanks, prefixes : PrefixLists(MaxPrefixes), host : Hosts,
     slashes : 0..MaxSlashes, trail : Blanks, upper : BOOLEAN]
NoParts ==
    [lead |-> << >>, prefixes |-> << >>, host |-> << >>, slashes |-> 0,
     trail |-> << >>, upper |-> FALSE]

\* the string the parts spell
Spell(p) ==
    LET body == Join(p.prefixes, << >>) \o p.host \o Fill(p.slashes, 47)
    IN  p.lead \o (IF p.upper THEN ToUpperCase(body) ELSE body) \o p.trail

\* host keys as the cookie store holds them, and some it would not hold
MatchHostKeys ==
    {DOMAIN_GITHUB, DOT \o DOMAIN_GITHUB, DOMAIN_API_GITHUB, DOT \o DOMAIN_API_GITHUB,
     HOST_EXAMPLE, HOST_DOT_EXAMPLE, DOT \o DOMAIN_SUB_EXAMPLE, HOST_DOT_OTHER,
     DOT \o DOMAIN_COM, <<46, 99, 111, 46, 117, 107>>,
     ToUpperCase(DOMAIN_GITHUB), DOT \o DOT \o DOMAIN_GITHUB}

\* a row of the cookies table as the tests write it
MakeStoredRow(host_key, value, encrypted_value) ==
    [host_key        |-> host_key,
     name            |-> COOKIE_NAME,
     value           |-> value,
     encrypted_value |-> encrypted_value,
     path            |-> COOKIE_PATH,
     expires_utc     |-> <<0, 0, 0>>,
     is_secure       |-> 1,
     is_httponly     |-> 0]

----------------------------------------------------------------------------
(* Inputs of getChromiumCookiesMacOS                                       *)

\* 'firefox', 'Chrome'
BROWSER_FIREFOX == <<102, 105, 114, 101, 102, 111, 120>>
BROWSER_CAPITAL == <<67, 104, 114, 111, 109, 101>>
BrowserIds == {CHROME_CONFIG.id, CHROMIUM_CONFIG.id, BROWSER_FIREFOX, << >>, BROWSER_CAPITAL}
\* 'Default', 'Profile 1'
PROFILE_DEFAULT == <<68, 101, 102, 97, 117, 108, 116>>
PROFILE_1 == <<80, 114, 111, 102, 105, 108, 101, 32, 49>>
ProfileNames == {PROFILE_DEFAULT, PROFILE_1, << >>}
Platforms == {"darwin", "linux"}

\* the file Cookies in a directory of basePath, or in basePath itself
StoreIn(basePath, directory) ==
    IF directory = << >> THEN basePath \o <<FILE_COOKIES>>
    ELSE basePath \o <<directory, FILE_COOKIES>>

\* the stores on disk: of each browser, the one of the profile asked for
\* (inProfile) and the one directly under the base directory (inRoot)
StoreFiles(profileName, inProfile, inRoot) ==
    LET bases ==
          {GetBrowserBasePath(CHROMIUM_BROWSERS_CONFIG_MACOS[i]) :
              i \in 1..Len(CHROMIUM_BROWSERS_CONFIG_MACOS)}
    IN  {StoreIn(b, profileName) : b \in IF inProfile THEN bases ELSE {}}
            \cup {StoreIn(b, << >>) : b \in IF inRoot THEN bases ELSE {}}

\* what `security find-generic-password` gives: 'test_password\n' in the tests
STDOUT_PASSWORD == <<116, 101, 115, 116, 95, 112, 97, 115, 115, 119, 111, 114, 100>> \o <<10>>
STDOUT_OTHER == <<111, 116, 104, 101, 114>> \o <<10>>
\* '  test_password  \n\n'
STDOUT_PADDED ==
    <<32, 32, 116, 101, 115, 116, 95, 112, 97, 115, 115, 119, 111, 114, 100, 32, 32, 10, 10>>
\* 'The specified item could not be found in the keychain'
STDERR_NOT_FOUND == <<84, 104, 101, 32, 115, 112, 101, 99, 105, 102, 105, 101, 100, 32, 105, 116, 101, 109, 32, 99, 111, 117, 108, 100, 32, 110, 111, 116, 32, 98, 101, 32, 102, 111, 117, 110, 100, 32, 105, 110, 32, 116, 104, 101, 32, 107, 101, 121, 99, 104, 97, 105, 110>>
\* the arguments of the callback of execFile: whether error is set, stdout
\* and stderr (NULL for undefined)
KeychainFound == [error |-> FALSE, stdout |-> STDOUT_PASSWORD, stderr |-> << >>]
KeychainFailures ==
    {[error |-> TRUE, stdout |-> << >>, stderr |-> STDERR_NOT_FOUND],
     [error |-> TRUE, stdout |-> << >>, stderr |-> NULL],
     [error |-> TRUE, stdout |-> STDOUT_PASSWORD, stderr |-> << >>]}
Keychains ==
    KeychainFailures \cup
    {KeychainFound,
     [error |-> FALSE, stdout |-> STDOUT_OTHER, stderr |-> << >>],
     [error |-> FALSE, stdout |-> STDOUT_PADDED, stderr |-> << >>],
     [error |-> FALSE, stdout |-> << >>, stderr |-> << >>]}
\* the key the stored cookies were encrypted with
STORE_KEY == DeriveKey(Utf8Encode(Trim(STDOUT_PASSWORD)))

\* domain filters: none, '', 'localhost', 'github.com', 'api.github.com',
\* 'https://www.GitHub.com/'
FILTER_DECORATED ==
    SCHEME_HTTPS \o WWW \o <<71, 105, 116, 72, 117, 98, 46, 99, 111, 109>> \o SLASH
DomainFilters ==
    {NULL, << >>, DOMAIN_LOCALHOST, DOMAIN_GITHUB, DOMAIN_API_GITHUB, FILTER_DECORATED}

\* stored rows: with a plaintext value, with a payload the store key
\* decrypts, with a payload nothing decrypts, and with no value at all
\* 'value1'
VALUE_1 == <<118, 97, 108, 117, 101, 49>>
PlainRow(host_key) == MakeStoredRow(host_key, VALUE_1, NULL)
EncryptedRow(host_key) ==
    MakeStoredRow(host_key, << >>,
                  CreateV10EncryptedValue(TEXT_SHORT, STORE_KEY, HashOf(host_key)))
BrokenRow(host_key) == MakeStoredRow(host_key, NULL, RAW_INVALID)
EmptyRow(host_key) == MakeStoredRow(host_key, NULL, NULL)

RowPool ==
    {PlainRow(DOT \o DOMAIN_GITHUB), EncryptedRow(DOMAIN_GITHUB),
     PlainRow(DOT \o DOMAIN_API_GITHUB), BrokenRow(DOT \o DOMAIN_GITHUB),
     EmptyRow(HOST_DOT_EXAMPLE)}
MaxRows == 2
RECURSIVE RowLists(_)
RowLists(n) ==
    IF n = 0 THEN {<< >>}
    ELSE RowLists(n - 1) \cup {Append(l, r) : l \in RowLists(n - 1), r \in RowPool}
\* the tables of the domain filtering tests
TABLE_GITHUB ==
    <<PlainRow(DOT \o DOMAIN_GITHUB), PlainRow(DOMAIN_GITHUB),
      PlainRow(DOT \o DOMAIN_API_GITHUB), PlainRow(HOST_DOT_EXAMPLE)>>
TABLE_API ==
    <<PlainRow(DOT \o DOMAIN_API_GITHUB), PlainRow(DOMAIN_API_GITHUB),
      PlainRow(DOT \o DOMAIN_GITHUB), PlainRow(HOST_DOT_OTHER)>>
TABLE_MIXED ==
    <<EncryptedRow(DOT \o DOMAIN_GITHUB), BrokenRow(DOMAIN_GITHUB),
      EmptyRow(DOT \o DOMAIN_GITHUB), PlainRow(DOMAIN_GITHUB)>>
Tables == RowLists(MaxRows) \cup {TABLE_GITHUB, TABLE_API, TABLE_MIXED}

----------------------------------------------------------------------------
(* State: the arguments of one call (the stored row and the derived key),   *)
(* what the decryptCookieValue call did (dec), what transformCookieRow      *)
(* returned (out), and whether the call has been made (pc).                 *)

VARIABLES row, derivedKey, dec, out, pc

\* The domain functions: the string given (domainFilter, spelt from parts),
\* what normalizeDomain returned, the list generateDomainMatchers returned,
\* and the answers for one host key (matched).
VARIABLES domainFilter, parts, normalizedDomain, domainMatchers, matched
domainVars == <<domainFilter, parts, normalizedDomain, domainMatchers, matched>>

\* One call of getChromiumCookiesMacOS: its arguments (browserId,
\* profileName, domainFilter) and surroundings (os.platform(), the cookie
\* stores on disk, what the keychain command gives, the rows of the cookies
\* table), its locals (browserConfig, cookieDbPath), the
\* ChromiumCookieDatabase it made (db), the calls it made to the outside
\* (effects) and how it ended (result).
VARIABLES platform, browserId, profileName, files, keychain, table,
          browserConfig, cookieDbPath, db, effects, result
envVars == <<platform, browserId, profileName, files, keychain, table>>
callVars == <<browserConfig, cookieDbPath, db, effects, result>>

vars == <<row, derivedKey, dec, out, pc, domainVars, envVars, callVars>>

NoPath == << >>
\* no ChromiumCookieDatabase: db is null (state "none") or a handle of
\* sqlite3 (state "open"), tempDir and tempPath are the paths it keeps
NoDatabase == [state |-> "none", tempDir |-> NoPath, tempPath |-> NoPath]
Pending == Completed(<< >>)
\* getChromiumCookiesMacOS has not been called
CallIdle ==
    /\ platform = "darwin"
    /\ browserId = << >>
    /\ profileName = << >>
    /\ files = {}
    /\ keychain = KeychainFound
    /\ table = << >>
    /\ browserConfig = CHROME_CONFIG
    /\ cookieDbPath = NoPath
    /\ db = NoDatabase
    /\ effects = << >>
    /\ result = Pending

NoMatch == [hostKey |-> << >>, has |-> FALSE, any |-> FALSE]
\* no domain function has been called
DomainIdle ==
    /\ domainFilter = NULL
    /\ parts = NoParts
    /\ normalizedDomain = NULL
    /\ domainMatchers = NULL
    /\ matched = NoMatch

NoResult == [thrown |-> FALSE, null |-> TRUE, cookie |-> NoCookie]

MakeRow(host_key, value, encrypted_value, expires_utc, is_secure, is_httponly) ==
    [host_key        |-> host_key,
     name            |-> COOKIE_NAME,
     value           |-> value,
     encrypted_value |-> encrypted_value,
     path            |-> COOKIE_PATH,
     expires_utc     |-> expires_utc,
     is_secure       |-> is_secure,
     is_httponly     |-> is_httponly]

\* expires_utc: -1, 0, 1, 999999, 2500000000999999 (a date in 1680),
\* 13350475200000000 and 13350475200999998
ExpiresValues ==
    {<<-1, 99999, 999999>>, <<0, 0, 0>>, <<0, 0, 1>>, <<0, 0, 999999>>,
     <<25000, 0, 999999>>, <<133504, 75200, 0>>, <<133504, 75200, 999998>>}
NO_EXPIRY == <<0, 0, 0>>

SamplePayload == CreateV10EncryptedValue(TEXT_COOKIE, KEY_A, HashOf(HOST_DOT_EXAMPLE))

DecryptInputs ==
    (EncryptedPayloads \X CipherKeys \X HostKeys)
        \cup ((RawPayloads \cup {SamplePayload}) \X AllKeys \X HostKeys)

InitDecrypt ==
    /\ \E in \in DecryptInputs :
          /\ row = MakeRow(in[3], NULL, in[1], NO_EXPIRY, 0, 0)
          /\ derivedKey = in[2]
    /\ dec = NoCall
    /\ out = NoResult
    /\ pc = "start"
    /\ DomainIdle
    /\ CallIdle

\* one call of decryptCookieValue(row.encrypted_value, derivedKey, row.host_key)
Decrypt ==
    /\ pc = "start"
    /\ derivedKey # NULL
    /\ dec' = DecryptCookieValue(row.encrypted_value, derivedKey, row.host_key)
    /\ pc' = "decrypted"
    /\ UNCHANGED <<row, derivedKey, out, domainVars, envVars, callVars>>

TransformHosts == {HOST_DOT_EXAMPLE, HOST_DOT_DIFFERENT}
TransformValues == {NULL, << >>, PLAIN_VALUE}
TransformKeys == {NULL, KEY_A, KEY_B, << >>, KEY_SHORT}
TransformPayloads ==
    {NULL, << >>, V10_PREFIX, RAW_V11, RAW_INVALID, Junk(BLOCK_SIZE)}
        \cup {CreateV10EncryptedValue(pt, KEY_A, HashOf(HOST_DOT_EXAMPLE)) :
                pt \in {<< >>, <<120>>, <<233>>, TEXT_COOKIE}}
        \cup {CreateV10EncryptedValue(pt, KEY_A, << >>) : pt \in {<< >>, TEXT_SHORT}}

InitTransform ==
    /\ \E h \in TransformHosts, v \in TransformValues, e \in TransformPayloads,
          x \in ExpiresValues, s \in {0, 1}, o \in {0, 1} :
          row = MakeRow(h, v, e, x, s, o)
    /\ derivedKey \in TransformKeys
    /\ dec = NoCall
    /\ out = NoResult
    /\ pc = "start"
    /\ DomainIdle
    /\ CallIdle

\* one call of transformCookieRow(row, derivedKey)
Transform ==
    /\ pc = "start"
    /\ LET r == TransformCookieRow(row, derivedKey)
       IN  /\ out' = [thrown |-> r.thrown, null |-> r.null, cookie |-> r.cookie]
           /\ dec' = r.call
    /\ pc' = "transformed"
    /\ UNCHANGED <<row, derivedKey, domainVars, envVars, callVars>>

\* no row is being transformed
RowIdle ==
    /\ row = MakeRow(<< >>, NULL, NULL, NO_EXPIRY, 0, 0)
    /\ derivedKey = NULL
    /\ dec = NoCall
    /\ out = NoResult

InitDomain ==
    /\ parts \in DomainParts
    /\ domainFilter = Spell(parts)
    /\ normalizedDomain = NULL
    /\ domainMatchers = NULL
    /\ matched = NoMatch
    /\ RowIdle
    /\ CallIdle
    /\ pc = "start"

\* one call of normalizeDomain(domainFilter)
NormalizeDomainCall ==
    /\ pc = "start"
    /\ normalizedDomain' = NormalizeDomain(domainFilter)
    /\ pc' = "normalized"
    /\ UNCHANGED <<row, derivedKey, dec, out, domainFilter, parts, domainMatchers, matched,
                   envVars, callVars>>

\* normalizeDomain called once more, on what it has just returned
NormalizeAgainCall ==
    /\ pc = "normalized"
    /\ normalizedDomain # NULL
    /\ domainFilter' = normalizedDomain
    /\ normalizedDomain' = NormalizeDomain(normalizedDomain)
    /\ pc' = "renormalized"
    /\ UNCHANGED <<row, derivedKey, dec, out, parts, domainMatchers, matched,
                   envVars, callVars>>

\* one call of generateDomainMatchers: on the string as given, or on the
\* normalized domain as getChromiumCookiesMacOS calls it
GenerateDomainMatchersCall ==
    /\ \/ pc = "start"
       \/ pc = "normalized" /\ normalizedDomain # NULL
    /\ domainMatchers' =
          GenerateDomainMatchers(IF pc = "start" THEN domainFilter ELSE normalizedDomain)
    /\ pc' = "generated"
    /\ UNCHANGED <<row, derivedKey, dec, out, domainFilter, parts, normalizedDomain, matched,
                   envVars, callVars>>

\* one host key put to the matcher set and to isDomainMatch with each matcher
IsDomainMatchCall ==
    /\ pc = "generated"
    /\ normalizedDomain # NULL
    /\ \E h \in MatchHostKeys :
          matched' =
            [hostKey |-> h,
             has |-> SetHas(domainMatchers, h),
             any |-> \E i \in 1..Len(domainMatchers) :
                        IsDomainMatch(h, domainMatchers[i])]
    /\ pc' = "matched"
    /\ UNCHANGED <<row, derivedKey, dec, out, domainFilter, parts, normalizedDomain,
                   domainMatchers, envVars, callVars>>


----------------------------------------------------------------------------
(* getChromiumCookiesMacOS, statement by statement                          *)

\* how the promise settles
Resolve(done) == [done EXCEPT !.settled = TRUE]
Reject(message) == Resolve(Failed(message))
Effect(op, arg) == [op |-> op, arg |-> arg]
\* errors of the file system and of sqlite3, which the code passes on
MSG_COPY == <<99, 111, 112, 121, 70, 105, 108, 101, 83, 121, 110, 99>>
MSG_QUERY == <<83, 81, 76, 73, 84, 69, 95, 69, 82, 82, 79, 82>>
MSG_CLOSE == <<83, 81, 76, 73, 84, 69, 95, 66, 85, 83, 89>>
MSG_OPEN == <<83, 81, 76, 73, 84, 69, 95, 67, 65, 78, 84, 79, 80, 69, 78>>
\* 'Database not opened'
MSG_NOT_OPENED == <<68, 97, 116, 97, 98, 97, 115, 101, 32, 110, 111, 116, 32, 111, 112, 101, 110, 101, 100>>

----------------------------------------------------------------------------
(* ChromiumCookieDatabase.  The file system is the set of the paths that   *)
(* exist; a method gives the object and the file system it leaves, the     *)
(* calls it made to fs and sqlite3, and the error it threw or rejected     *)
(* with, if any.                                                            *)

\* os.tmpdir() ('/tmp'), and the directory fs.mkdtempSync makes in it
TMP_DIR == <<47, 116, 109, 112>>
TEMP_DIR == <<TMP_DIR, <<99, 104, 114, 111, 109, 105, 117, 109, 45, 99, 111, 111, 107, 105, 101, 115, 45, 88, 88, 88, 88, 88, 88>>>>
\* 'Cookies.sqlite'
FILE_TEMP == <<67, 111, 111, 107, 105, 101, 115, 46, 115, 113, 108, 105, 116, 101>>

Did(object, fileSystem, calls) ==
    [db |-> object, files |-> fileSystem, effects |-> calls, thrown |-> FALSE, error |-> << >>]
Threw(object, fileSystem, calls, message) ==
    [db |-> object, files |-> fileSystem, effects |-> calls, thrown |-> TRUE, error |-> message]

\* faulty variant: the store is moved into the temporary directory
Construct_moving(originalPath, fileSystem, copyFails) ==
    LET tempPath == TEMP_DIR \o <<FILE_TEMP>>
        calls == <<Effect("mkdtempSync", TMP_DIR), Effect("copyFileSync", originalPath)>>
    IN  IF copyFails \/ originalPath \notin fileSystem
          THEN Threw(NoDatabase, fileSystem \cup {TEMP_DIR}, calls, MSG_COPY)
          ELSE Did([state |-> "none", tempDir |-> TEMP_DIR, tempPath |-> tempPath],
                   (fileSystem \ {originalPath}) \cup {TEMP_DIR, tempPath}, calls)

\* constructor(originalPath, tempDir = fs.mkdtempSync(...)): copyFileSync
\* throws when there is nothing to copy and may throw for other reasons
Construct(originalPath, fileSystem, copyFails) ==
    LET tempPath == TEMP_DIR \o <<FILE_TEMP>>
        calls == <<Effect("mkdtempSync", TMP_DIR), Effect("copyFileSync", originalPath)>>
    IN  IF copyFails \/ originalPath \notin fileSystem
          THEN Threw(NoDatabase, fileSystem \cup {TEMP_DIR}, calls, MSG_COPY)
          ELSE Did([state |-> "none", tempDir |-> TEMP_DIR, tempPath |-> tempPath],
                   fileSystem \cup {TEMP_DIR, tempPath}, calls)

\* open(): new sqlite3.Database(this.tempPath, sqlite3.OPEN_READONLY); if
\* that throws, db stays as it was
Open(object, fileSystem, openThrows) ==
    LET opened == <<Effect("Database.OPEN_READONLY", object.tempPath)>>
    IN  IF openThrows THEN Threw(object, fileSystem, opened, MSG_OPEN)
        ELSE Did([object EXCEPT !.state = "open"], fileSystem, opened)

\* queryCookies(): throws without a handle, else rejects with the error of
\* db.all or resolves with the rows
QueryRows(object, fileSystem, queryErr) ==
    IF object.state = "none" THEN Threw(object, fileSystem, << >>, MSG_NOT_OPENED)
    ELSE IF queryErr THEN Threw(object, fileSystem, <<Effect("all", object.tempPath)>>, MSG_QUERY)
    ELSE Did(object, fileSystem, <<Effect("all", object.tempPath)>>)

\* faulty variant: the temporary directory is left behind
Cleanup_keepingDirectory(object, fileSystem, unlinkThrows, rmdirThrows) ==
    LET hasFile == object.tempPath \in fileSystem
        unlink == <<Effect("existsSync", object.tempPath)>>
                    \o (IF hasFile THEN <<Effect("unlinkSync", object.tempPath)>> ELSE << >>)
    IN  IF hasFile /\ unlinkThrows THEN Did(object, fileSystem, unlink)
        ELSE Did(object, fileSystem \ {object.tempPath}, unlink)

\* the try block of close(): unlinkSync and rmdirSync on what exists; an
\* exception of either ends the block and is swallowed
Cleanup(object, fileSystem, unlinkThrows, rmdirThrows) ==
    LET hasFile == object.tempPath \in fileSystem
        hasDir == object.tempDir \in fileSystem
        unlink == <<Effect("existsSync", object.tempPath)>>
                    \o (IF hasFile THEN <<Effect("unlinkSync", object.tempPath)>> ELSE << >>)
        rmdir == <<Effect("existsSync", object.tempDir)>>
                    \o (IF hasDir THEN <<Effect("rmdirSync", object.tempDir)>> ELSE << >>)
    IN  IF hasFile /\ unlinkThrows THEN Did(object, fileSystem, unlink)
        ELSE IF hasDir /\ rmdirThrows
          THEN Did(object, fileSystem \ {object.tempPath}, unlink \o rmdir)
        ELSE Did(object, fileSystem \ {object.tempPath, object.tempDir}, unlink \o rmdir)

\* faulty variant: the temporary files are removed whatever db.close said
Close_alwaysCleaning(object, fileSystem, closeErr, unlinkThrows, rmdirThrows) ==
    LET cleaned == Cleanup(object, fileSystem, unlinkThrows, rmdirThrows)
        closed == <<Effect("close", object.tempPath)>>
    IN  IF object.state = "none" THEN cleaned
        ELSE IF closeErr
          THEN Threw(object, cleaned.files, closed \o cleaned.effects, MSG_CLOSE)
        ELSE Did(object, cleaned.files, closed \o cleaned.effects)

\* close(): with a handle, db.close first, whose error rejects at once;
\* then the cleanup
Close(object, fileSystem, closeErr, unlinkThrows, rmdirThrows) ==
    LET cleaned == Cleanup(object, fileSystem, unlinkThrows, rmdirThrows)
        closed == <<Effect("close", object.tempPath)>>
    IN  IF object.state = "none" THEN cleaned
        ELSE IF closeErr THEN Threw(object, fileSystem, closed, MSG_CLOSE)
        ELSE Did(object, cleaned.files, closed \o cleaned.effects)

----------------------------------------------------------------------------
(* getChromiumCookiesMacOS: one call                                        *)

InitCall ==
    /\ \/ /\ platform = "darwin"
          /\ browserId \in {CHROME_CONFIG.id, CHROMIUM_CONFIG.id}
          /\ profileName = PROFILE_DEFAULT
          /\ files = StoreFiles(profileName, TRUE, FALSE)
          /\ keychain \in Keychains
          /\ domainFilter \in DomainFilters
          /\ table \in Tables
       \/ /\ platform \in Platforms
          /\ browserId \in BrowserIds
          /\ profileName \in ProfileNames
          /\ \E inProfile \in BOOLEAN, inRoot \in BOOLEAN :
                files = StoreFiles(profileName, inProfile, inRoot)
          /\ keychain \in {k \in Keychains : k.stderr = << >> /\ k.stdout \in {<< >>, STDOUT_PASSWORD}}
          /\ domainFilter \in {NULL, DOMAIN_GITHUB}
          /\ table = TABLE_MIXED
    /\ parts = NoParts
    /\ normalizedDomain = NULL
    /\ domainMatchers = NULL
    /\ matched = NoMatch
    /\ RowIdle
    /\ browserConfig = CHROME_CONFIG
    /\ cookieDbPath = NoPath
    /\ db = NoDatabase
    /\ effects = << >>
    /\ result = Pending
    /\ pc = "start"

\* if (os.platform() !== "darwin") throw ...
CheckPlatform ==
    /\ pc = "start"
    /\ IF platform # "darwin"
         THEN result' = Reject(MSG_MACOS_ONLY) /\ pc' = "done"
         ELSE result' = result /\ pc' = "config"
    /\ UNCHANGED <<row, derivedKey, dec, out, domainVars, envVars,
                   browserConfig, cookieDbPath, db, effects>>

\* const browserConfig = getBrowserConfig(browserId)
ResolveBrowserConfig ==
    /\ pc = "config"
    /\ LET config == GetBrowserConfig(browserId)
       IN  IF config.thrown
             THEN /\ result' = Reject(config.error)
                  /\ pc' = "done"
                  /\ UNCHANGED browserConfig
             ELSE /\ browserConfig' = config.value
                  /\ pc' = "filter"
                  /\ UNCHANGED result
    /\ UNCHANGED <<row, derivedKey, dec, out, domainVars, envVars,
                   cookieDbPath, db, effects>>

\* the normalized domain and the matcher set of the domain filter
PrepareDomainFilter ==
    /\ pc = "filter"
    /\ normalizedDomain' = NormalizedFilter(domainFilter)
    /\ domainMatchers' = DomainMatchersFor(domainFilter)
    /\ pc' = "locate"
    /\ UNCHANGED <<row, derivedKey, dec, out, domainFilter, parts, matched,
                   envVars, callVars>>

\* the store of the profile, else the store under the base directory, else
\* an error
LocateCookieDb ==
    /\ pc = "locate"
    /\ LET basePath == GetBrowserBasePath(browserConfig)
           profilePath ==
             GetCookieDbPath(basePath, profileName, browserConfig.supportsProfiles)
           rootPath == GetCookieDbPath(basePath, << >>, FALSE)
           first == Effect("existsSync", profilePath)
           second == Effect("existsSync", rootPath)
       IN  IF profilePath \in files
             THEN /\ cookieDbPath' = profilePath
                  /\ effects' = Append(effects, first)
                  /\ pc' = "keychain"
                  /\ UNCHANGED result
           ELSE IF browserConfig.supportsProfiles /\ profileName # << >>
             THEN IF rootPath \in files
                    THEN /\ cookieDbPath' = rootPath
                         /\ effects' = effects \o <<first, second>>
                         /\ pc' = "keychain"
                         /\ UNCHANGED result
                    ELSE /\ result' = Reject(MSG_NOT_FOUND_FOR \o browserConfig.name
                                         \o MSG_PROFILE \o profileName \o MSG_CLOSE_PAREN)
                         /\ effects' = effects \o <<first, second>>
                         /\ pc' = "done"
                         /\ UNCHANGED cookieDbPath
           ELSE /\ result' = Reject(MSG_NOT_FOUND_AT \o Join(profilePath, SLASH))
                /\ effects' = Append(effects, first)
                /\ pc' = "done"
                /\ UNCHANGED cookieDbPath
    /\ UNCHANGED <<row, derivedKey, dec, out, domainVars, envVars, browserConfig, db>>

\* await keychainFetcher(account, service), then deriveKey unless it gave null
FetchKeychainPassword ==
    /\ pc = "keychain"
    /\ LET keychainPassword == KeychainResult(keychain.error, keychain.stdout)
           fetched ==
             Effect("execFile", <<browserConfig.keyringAccount, browserConfig.keyringService>>)
       IN  /\ derivedKey' = DerivedKeyFor(keychainPassword)
           /\ effects' =
                IF keychainPassword # NULL
                  THEN effects \o <<fetched, Effect("pbkdf2Sync", <<keychainPassword>>)>>
                  ELSE Append(effects, fetched)
    /\ pc' = "copy"
    /\ UNCHANGED <<row, dec, out, domainVars, envVars, browserConfig, cookieDbPath,
                   db, result>>

\* new ChromiumCookieDatabase(cookieDbPath), outside the try block: an
\* exception of the constructor leaves the function at once
CreateDatabase ==
    /\ pc = "copy"
    /\ \E copyFails \in BOOLEAN :
          LET made == Construct(cookieDbPath, files, copyFails)
          IN  /\ db' = made.db
              /\ files' = made.files
              /\ effects' = effects \o made.effects
              /\ IF made.thrown
                    THEN result' = Reject(made.error) /\ pc' = "done"
                    ELSE result' = result /\ pc' = "open"
    /\ UNCHANGED <<row, derivedKey, dec, out, domainVars, platform, browserId,
                   profileName, keychain, table, browserConfig, cookieDbPath>>

\* await db.open()
OpenDatabase ==
    /\ pc = "open"
    /\ \E openThrows \in BOOLEAN :
          LET opened == Open(db, files, openThrows)
          IN  /\ db' = opened.db
              /\ effects' = effects \o opened.effects
              /\ IF opened.thrown
                    THEN result' = Failed(opened.error) /\ pc' = "close"
                    ELSE result' = result /\ pc' = "query"
    /\ UNCHANGED <<row, derivedKey, dec, out, domainVars, envVars, browserConfig,
                   cookieDbPath>>

\* await db.queryCookies(), which rejects with the error of sqlite3 or
\* gives the rows, and the filter/map/filter over the rows
QueryCookies ==
    /\ pc = "query"
    /\ \E queryErr \in BOOLEAN :
          LET queried == QueryRows(db, files, queryErr)
          IN  /\ result' = IF queried.thrown THEN Failed(queried.error)
                           ELSE CookiesOf(table, domainMatchers, derivedKey)
              /\ effects' = effects \o queried.effects
    /\ pc' = "close"
    /\ UNCHANGED <<row, derivedKey, dec, out, domainVars, envVars, browserConfig,
                   cookieDbPath, db>>

\* finally { await db.close() }: a rejection of close() replaces the
\* outcome of the try block
CloseDatabase ==
    /\ pc = "close"
    /\ \E closeErr \in BOOLEAN, unlinkThrows \in BOOLEAN, rmdirThrows \in BOOLEAN :
          LET closed == Close(db, files, closeErr, unlinkThrows, rmdirThrows)
          IN  /\ result' = IF closed.thrown THEN Reject(closed.error) ELSE Resolve(result)
              /\ effects' = effects \o closed.effects
              /\ files' = closed.files
              /\ db' = closed.db
    /\ pc' = "done"
    /\ UNCHANGED <<row, derivedKey, dec, out, domainVars, platform, browserId,
                   profileName, keychain, table, browserConfig, cookieDbPath>>

----------------------------------------------------------------------------
(* ChromiumCookieDatabase: one object, its methods called in any order     *)

\* the calls to fs and sqlite3 after which no further method is called
MaxEffects == 8
\* the stores the object is made for, and what is in them
StorePaths ==
    {GetCookieDbPath(GetBrowserBasePath(CHROME_CONFIG), PROFILE_DEFAULT, TRUE),
     GetCookieDbPath(GetBrowserBasePath(CHROMIUM_CONFIG), << >>, FALSE)}
StoreTables == {<< >>, TABLE_GITHUB, TABLE_MIXED}

InitDatabase ==
    /\ RowIdle
    /\ DomainIdle
    /\ platform = "darwin"
    /\ browserId = << >>
    /\ profileName = << >>
    /\ keychain = KeychainFound
    /\ browserConfig = CHROME_CONFIG
    /\ cookieDbPath \in StorePaths
    /\ files \in {{}, {cookieDbPath}, StorePaths}
    /\ table \in StoreTables
    /\ db = NoDatabase
    /\ effects = << >>
    /\ result = Pending
    /\ pc = "new"

\* new ChromiumCookieDatabase(cookieDbPath)
ConstructCall ==
    /\ pc = "new"
    /\ \E copyFails \in BOOLEAN :
          LET made == Construct(cookieDbPath, files, copyFails)
          IN  /\ db' = made.db
              /\ files' = made.files
              /\ effects' = effects \o made.effects
              /\ result' = IF made.thrown THEN Reject(made.error) ELSE result
              /\ pc' = IF made.thrown THEN "done" ELSE "object"
    /\ UNCHANGED <<row, derivedKey, dec, out, domainVars, platform, browserId,
                   profileName, keychain, table, browserConfig, cookieDbPath>>

\* await db.open()
OpenCall ==
    /\ pc = "object"
    /\ Len(effects) < MaxEffects
    /\ \E openThrows \in BOOLEAN :
          LET opened == Open(db, files, openThrows)
          IN  /\ db' = opened.db
              /\ effects' = effects \o opened.effects
              /\ result' = IF opened.thrown THEN Reject(opened.error)
                           ELSE Resolve(Completed(<< >>))
    /\ UNCHANGED <<row, derivedKey, dec, out, pc, domainVars, envVars, browserConfig,
                   cookieDbPath>>

\* await db.queryCookies()
QueryCall ==
    /\ pc = "object"
    /\ Len(effects) < MaxEffects
    /\ \E queryErr \in BOOLEAN :
          LET queried == QueryRows(db, files, queryErr)
          IN  /\ result' = IF queried.thrown THEN Reject(queried.error)
                           ELSE Resolve(Completed(table))
              /\ effects' = effects \o queried.effects
    /\ UNCHANGED <<row, derivedKey, dec, out, pc, domainVars, envVars, browserConfig,
                   cookieDbPath, db>>

\* await db.close()
CloseCall ==
    /\ pc = "object"
    /\ Len(effects) < MaxEffects
    /\ \E closeErr \in BOOLEAN, unlinkThrows \in BOOLEAN, rmdirThrows \in BOOLEAN :
          LET closed == Close(db, files, closeErr, unlinkThrows, rmdirThrows)
          IN  /\ result' = IF closed.thrown THEN Reject(closed.error)
                           ELSE Resolve(Completed(<< >>))
              /\ effects' = effects \o closed.effects
              /\ files' = closed.files
              /\ db' = closed.db
    /\ UNCHANGED <<row, derivedKey, dec, out, pc, domainVars, platform, browserId,
                   profileName, keychain, table, browserConfig, cookieDbPath>>

NextDecrypt == Decrypt
NextTransform == Transform
NextDomain ==
    \/ NormalizeDomainCall
    \/ NormalizeAgainCall
    \/ GenerateDomainMatchersCall
    \/ IsDomainMatchCall
NextDatabase == ConstructCall \/ OpenCall \/ QueryCall \/ CloseCall
NextCall ==
    \/ CheckPlatform
    \/ ResolveBrowserConfig
    \/ PrepareDomainFilter
    \/ LocateCookieDb
    \/ FetchKeychainPassword
    \/ CreateDatabase
    \/ OpenDatabase
    \/ QueryCookies
    \/ CloseDatabase

SpecDecrypt == InitDecrypt /\ [][NextDecrypt]_vars
SpecTransform == InitTransform /\ [][NextTransform]_vars
SpecDomain == InitDomain /\ [][NextDomain]_vars
SpecCall == InitCall /\ [][NextCall]_vars
\* An async function goes on when what it awaits has settled, and the
\* callbacks of execFile and sqlite3 are called in the end: the call does
\* not stay for ever at a statement before its last.
ProgramPoints ==
    {"start", "config", "filter", "locate", "keychain", "copy", "open", "query",
     "close", "done"}
Advance == pc # "done" /\ pc' \in ProgramPoints /\ pc' # pc
FairSpecCall == SpecCall /\ WF_pc(Advance)
SpecDatabase == InitDatabase /\ [][NextDatabase]_vars

----------------------------------------------------------------------------
(* Properties of transformCookieRow (SpecTransform)                        *)

Transformed == pc = "transformed"
PlainPresent == row.value # NULL /\ Len(row.value) > 0
PayloadPresent == row.encrypted_value # NULL /\ Len(row.encrypted_value) > 0
\* what decryptCookieValue returns for this row and key
Decryption == DecryptCookieValue(row.encrypted_value, derivedKey, row.host_key).ret
DecryptedOk == PayloadPresent /\ derivedKey # NULL /\ Decryption # NULL
IsText(v) == v # NULL /\ v # THROWN

\* C1, as stated: a Cookie is emitted if and only if a usable value could be
\* determined (the plaintext is non-empty, or the encrypted payload was
\* successfully decrypted), and a record whose payload cannot be decrypted
\* is never emitted with an empty value.
C1_EmittedIffUsableValue ==
    Transformed =>
        /\ ~out.null <=> (PlainPresent \/ DecryptedOk)
        /\ (PayloadPresent /\ ~DecryptedOk /\ ~out.null) => out.cookie.value # << >>

\* C1, amended: a Cookie is emitted if and only if the plaintext is non-empty,
\* or the record has no non-empty encrypted payload (the value is then the
\* empty string), or a key is present and decryptCookieValue returns a
\* non-empty string; a record without plaintext whose payload cannot be
\* decrypted is dropped, and no record that has an encrypted payload is
\* emitted with an empty value.
C1_EmittedIffValueOrNoPayload ==
    Transformed =>
        /\ ~out.thrown
        /\ ~out.null <=>
              \/ PlainPresent
              \/ ~PayloadPresent
              \/ derivedKey # NULL /\ IsText(Decryption) /\ Len(Decryption) > 0
        /\ (PayloadPresent /\ ~PlainPresent /\ ~DecryptedOk) => out.null
        /\ (PayloadPresent /\ ~out.null) => out.cookie.value # << >>

\* an undecryptable payload, no plaintext, a key: the record is dropped
C1_Witness ==
    /\ Transformed
    /\ ~PlainPresent /\ PayloadPresent
    /\ derivedKey # NULL /\ Len(derivedKey) = AES_KEY_LENGTH
    /\ dec.called /\ dec.ret = NULL
    /\ out.null

\* C2: for a record with no non-empty plaintext and a non-empty encrypted
\* payload: without a key the result is null; with a key the result is null
\* exactly when decryptCookieValue returns null, and otherwise the Cookie's
\* value is the decryptor's result, the empty string included.
C2_NullExactlyWhenDecryptorNull ==
    (Transformed /\ ~PlainPresent /\ PayloadPresent) =>
        IF derivedKey = NULL
          THEN out.null /\ ~dec.called
          ELSE /\ dec.called
               /\ out.null <=> (dec.ret = NULL)
               /\ dec.ret # NULL => out.cookie.value = dec.ret

\* C3: a record whose plaintext value is a non-empty string is emitted with
\* that plaintext as its value and decryptCookieValue is not called, whatever
\* the encrypted payload and the key are.
C3_PlaintextWins ==
    (Transformed /\ PlainPresent) =>
        /\ ~out.null
        /\ out.cookie.value = row.value
        /\ ~dec.called

\* plaintext together with a payload that no key can decrypt
C3_Witness ==
    /\ Transformed
    /\ PlainPresent /\ PayloadPresent
    /\ derivedKey # NULL
    /\ DecryptCookieValue(row.encrypted_value, derivedKey, row.host_key).ret = NULL
    /\ ~out.null

\* C4: a record with no plaintext (null or empty) and no encrypted payload
\* (null or zero-length) is kept: a Cookie whose value is the empty string is
\* emitted, with or without a key.
C4_NoValueKept ==
    (Transformed /\ ~PlainPresent /\ ~PayloadPresent) =>
        /\ ~out.null
        /\ out.cookie.value = << >>
        /\ out.cookie.domain = row.host_key

\* an empty (zero-length, not null) payload and a usable key
C4_Witness ==
    /\ Transformed
    /\ row.value = NULL
    /\ row.encrypted_value = << >>
    /\ derivedKey # NULL /\ Len(derivedKey) = AES_KEY_LENGTH
    /\ ~out.null

----------------------------------------------------------------------------
(* Properties of decryptCookieValue (SpecDecrypt)                          *)

Decrypted == pc = "decrypted"
\* the call got as far as the cipher and the cipher gave a buffer
CipherGave == dec.decrypted # NULL /\ dec.decrypted # THROWN
StartsWithV10Bytes(buf) ==
    buf # NULL /\ Len(buf) >= 3 /\ SubSeq(buf, 1, 3) = <<118, 49, 48>>
CiphertextLen == Len(row.encrypted_value) - 3
Contains(s, t) ==
    \E i \in 0..(Len(s) - Len(t)) : SubSeq(s, i + 1, i + Len(t)) = t

\* C5: if the payload is 'v10' followed by the AES-128-CBC (IV = 16 spaces)
\* encryption, under a 16-byte key, of SHA-256(D) || plaintext || PKCS7
\* padding, then decryptCookieValue(payload, key, D) returns the plaintext.
C5_RoundTrip ==
    \A c \in ModernCases :
        (/\ Decrypted
         /\ row.encrypted_value = c.payload
         /\ derivedKey = c.key
         /\ row.host_key = c.host) => dec.ret = c.plaintext

\* a plaintext with characters of more than one byte, decrypted for its owner
C5_Witness ==
    /\ Decrypted
    /\ \E c \in ModernCases :
          /\ row.encrypted_value = c.payload
          /\ derivedKey = c.key
          /\ row.host_key = c.host
          /\ Len(Utf8Encode(c.plaintext)) > Len(c.plaintext)
          /\ Len(c.plaintext) > 1

\* C6: decryptCookieValue returns null, before any cipher operation and
\* whatever the key and the owner domain are, when the payload is absent or
\* empty or its first 3 bytes are not the ASCII marker 'v10' (every payload
\* shorter than 3 bytes included).
C6_VersionGuard ==
    (Decrypted /\ ~StartsWithV10Bytes(row.encrypted_value)) =>
        /\ dec.ret = NULL
        /\ dec.cipherOps = 0
        /\ dec.decrypted = NULL

\* another marker followed by a whole block, under a key the cipher accepts
C6_Witness ==
    /\ Decrypted
    /\ row.encrypted_value # NULL
    /\ Len(row.encrypted_value) > 3
    /\ ~StartsWithV10Bytes(row.encrypted_value)
    /\ CiphertextLen % BLOCK_SIZE = 0
    /\ Len(derivedKey) = AES_KEY_LENGTH

\* C7: with p the last byte of the decrypted buffer: if 1 <= p <= 16 exactly
\* the last p bytes are removed; if p = 0 or p > 16 no byte is removed and
\* the result is not null.  Only the last byte is consulted.
C7_PaddingRemoval ==
    (Decrypted /\ CipherGave /\ Len(dec.decrypted) > 0) =>
        LET n == Len(dec.decrypted)
            p == dec.decrypted[n]
        IN  /\ (1 <= p /\ p <= 16) => dec.unpadded = SubSeq(dec.decrypted, 1, n - p)
            /\ (p = 0 \/ p > 16) => (dec.unpadded = dec.decrypted /\ IsText(dec.ret))
            /\ \A c \in PaddedCases :
                  (row.encrypted_value = c.payload /\ derivedKey = c.key)
                      => dec.decrypted = c.padded

\* a last byte above 16 after bytes that are not a padding
C7_Witness ==
    /\ Decrypted
    /\ \E c \in PaddedCases :
          /\ row.encrypted_value = c.payload
          /\ derivedKey = c.key
          /\ c.padded[Len(c.padded)] > 16
    /\ dec.unpadded = dec.decrypted

\* C8: after the padding step the first 32 bytes are removed if and only if
\* the buffer has at least 32 bytes and they equal SHA-256 of the owner
\* domain; a shorter buffer, or one with another prefix, is returned whole.
C8_HashPrefix ==
    (Decrypted /\ CipherGave) =>
        LET u == dec.unpadded
            matches == /\ Len(u) >= 32
                       /\ SubSeq(u, 1, 32) = HashOf(row.host_key)
        IN  /\ dec.stripped <=> matches
            /\ matches => dec.ret = Utf8Decode(SubSeq(u, 33, Len(u)))
            /\ ~matches => dec.ret = Utf8Decode(u)

\* 32 bytes or more whose prefix is the hash of another host key
C8_Witness ==
    /\ Decrypted /\ CipherGave
    /\ Len(dec.unpadded) > 32
    /\ \E h \in HostKeys :
          h # row.host_key /\ SubSeq(dec.unpadded, 1, 32) = HashOf(h)
    /\ ~dec.stripped

\* C9: a payload encrypted with the SHA-256 prefix of D1 and decrypted with
\* owner domain D2 # D1 gives a string, never null and never the bare
\* plaintext, that is longer than the plaintext and contains it.
C9_HashMismatch ==
    \A c \in ModernCases :
        (/\ Decrypted
         /\ row.encrypted_value = c.payload
         /\ derivedKey = c.key
         /\ row.host_key # c.host) =>
            /\ IsText(dec.ret)
            /\ dec.ret # c.plaintext
            /\ Len(dec.ret) > Len(c.plaintext)
            /\ Contains(dec.ret, c.plaintext)

\* a non-empty plaintext decrypted for another owner
C9_Witness ==
    /\ Decrypted
    /\ \E c \in ModernCases :
          /\ row.encrypted_value = c.payload
          /\ derivedKey = c.key
          /\ row.host_key # c.host
          /\ Len(c.plaintext) > 0

\* C10: decryptCookieValue never lets an exception out: for a v10 payload,
\* a key of any length and any owner domain, a failure of the cipher (a
\* ciphertext that is no multiple of 16 bytes, a key that is not 16 bytes)
\* gives null.
C10_CipherFailureIsNull ==
    Decrypted =>
        /\ dec.ret # THROWN
        /\ (/\ StartsWithV10Bytes(row.encrypted_value)
            /\ \/ Len(derivedKey) # 16
               \/ CiphertextLen % 16 # 0) => (dec.ret = NULL /\ dec.cipherOps = 1)

\* whole blocks of ciphertext under a key of the wrong length
C10_Witness ==
    /\ Decrypted
    /\ StartsWithV10Bytes(row.encrypted_value)
    /\ CiphertextLen > 0 /\ CiphertextLen % 16 = 0
    /\ Len(derivedKey) > 16
    /\ dec.ret = NULL

----------------------------------------------------------------------------
(* Properties of the domain functions (SpecDomain)                         *)

Generated == pc \in {"generated", "matched"}
\* the string generateDomainMatchers was called with
MatcherDomain == IF normalizedDomain # NULL THEN normalizedDomain ELSE domainFilter
DotCount(s) == Cardinality({j \in 1..Len(s) : s[j] = 46})
\* labels i..n of a domain, joined by '.', i counted from 0
Suffix(d, i) ==
    LET labels == Split(d, DOT) IN Join(SubSeq(labels, i + 1, Len(labels)), DOT)
\* the i from 1 upward whose suffix still contains a '.'
ParentIndexes(d) ==
    {i \in 1..(Len(Split(d, DOT)) - 1) : DotCount(Suffix(d, i)) > 0}

\* C11: generateDomainMatchers returns, in this order, the domain, '.' + the
\* domain, and then for each i from 1 upward '.' + (labels i..n joined by
\* '.') only when that suffix still contains a '.'; a dot-prefixed single
\* label is never emitted as a parent matcher, and a domain with k >= 1 dots
\* yields exactly k + 1 entries.
C11_MatcherList ==
    Generated =>
        LET d == MatcherDomain
            m == domainMatchers
            kept == ParentIndexes(d)
        IN  /\ Len(m) = 2 + Cardinality(kept)
            /\ m[1] = d
            /\ m[2] = DOT \o d
            /\ \A i \in kept :
                  m[2 + Cardinality({j \in kept : j <= i})] = DOT \o Suffix(d, i)
            /\ \A j \in 3..Len(m) : DotCount(Tail(m[j])) > 0
            /\ DotCount(d) >= 1 => Len(m) = DotCount(d) + 1

\* 'bbc.co.uk' gives 'bbc.co.uk', '.bbc.co.uk', '.co.uk' and no '.uk'
C11_Witness ==
    /\ pc = "generated"
    /\ MatcherDomain = DOMAIN_BBC
    /\ domainMatchers = <<DOMAIN_BBC, DOT \o DOMAIN_BBC, <<46, 99, 111, 46, 117, 107>>>>

Matched == pc = "matched"
\* a host key as Chromium stores it: lowercase, at most one leading '.'
StoredForm(h) == h = ToLowerCase(h) /\ ~StartsWith(h, DOT \o DOT)

\* C12, as stated: for every host key h and every normalized domain D, the
\* filter of getChromiumCookiesMacOS (h is a member of the set of generated
\* matchers of D) gives the same answer as calling isDomainMatch(h, m) with
\* every generated matcher m and accepting when any call is true.
C12_FilterEqualsPrimitive ==
    Matched => (matched.has <=> matched.any)

\* C12, amended: a host key in the matcher set is accepted by isDomainMatch
\* with some matcher, and the two answers are the same for every host key
\* that is lowercase and does not begin with '..'.
C12_FilterEqualsPrimitiveOnStoredKeys ==
    Matched =>
        /\ matched.has => matched.any
        /\ StoredForm(matched.hostKey) => (matched.has <=> matched.any)

\* '.github.com' under the filter 'api.github.com': both accept the parent
C12_Witness ==
    /\ Matched
    /\ normalizedDomain = DOMAIN_API_GITHUB
    /\ matched.hostKey = DOT \o DOMAIN_GITHUB
    /\ matched.has
    /\ matched.any

Normalized == pc = "normalized"
IsScheme(t) == t \in {SCHEME_HTTP, SCHEME_HTTPS}
\* the prefixes left when one leading scheme and then one leading 'www.' go
PrefixesLeft(prefixes) ==
    LET afterScheme ==
          IF Len(prefixes) > 0 /\ IsScheme(prefixes[1]) THEN Tail(prefixes) ELSE prefixes
    IN  IF Len(afterScheme) > 0 /\ afterScheme[1] = WWW
          THEN Tail(afterScheme) ELSE afterScheme
\* what is left of the spelt string: the host in lower case (the hosts are
\* lower case), the prefixes left before it and one '/' fewer after it; with
\* no '/' after it, whitespace that ends the host is trimmed with the rest
CleanedParts(p) ==
    Join(PrefixesLeft(p.prefixes), << >>)
        \o (IF p.slashes > 0 THEN p.host ELSE TrimEnd(p.host))
        \o Fill(IF p.slashes > 0 THEN p.slashes - 1 ELSE 0, 47)

\* C15: normalizeDomain lowercases, trims surrounding whitespace, strips one
\* leading 'http://' or 'https://', strips one trailing '/', strips one leading
\* 'www.', in this order, and returns null exactly when what is left contains
\* no '.', the cleaned string (a port included) otherwise.
C15_NormalizeSteps ==
    Normalized =>
        LET cleaned == CleanedParts(parts)
        IN  /\ normalizedDomain = NULL <=> DotCount(cleaned) = 0
            /\ normalizedDomain # NULL => normalizedDomain = cleaned

\* '  HTTPS://WWW.GITHUB.COM/  ' gives 'github.com'
C15_Witness ==
    /\ Normalized
    /\ parts.upper
    /\ Len(parts.lead) > 0
    /\ Len(parts.trail) > 0
    /\ parts.prefixes = <<SCHEME_HTTPS, WWW>>
    /\ parts.slashes = 1
    /\ normalizedDomain = DOMAIN_GITHUB

IsLowerCase(s) == s = ToLowerCase(s)
HasSchemePrefix(s) == StartsWith(s, SCHEME_HTTP) \/ StartsWith(s, SCHEME_HTTPS)
\* at most one scheme, then at most one 'www.', before the host and at most
\* one '/' after it
DecoratedOnce(p) ==
    /\ p.slashes <= 1
    /\ \/ Len(p.prefixes) = 0
       \/ Len(p.prefixes) = 1
       \/ Len(p.prefixes) = 2 /\ IsScheme(p.prefixes[1]) /\ p.prefixes[2] = WWW

\* C16, as stated: for every input string, a non-null result of
\* normalizeDomain is lowercase, has no 'http://' or 'https://' prefix, no
\* trailing '/', no leading 'www.', and contains a '.'.
C16_NormalizedInvariant ==
    (Normalized /\ normalizedDomain # NULL) =>
        /\ IsLowerCase(normalizedDomain)
        /\ ~HasSchemePrefix(normalizedDomain)
        /\ ~EndsWith(normalizedDomain, SLASH)
        /\ ~StartsWith(normalizedDomain, WWW)
        /\ DotCount(normalizedDomain) > 0

\* C16, amended: a non-null result is lowercase and contains a '.'; it has no
\* scheme prefix, no trailing '/' and no leading 'www.' when the input has at
\* most one scheme, then at most one 'www.', before the host and at most one
\* '/' after it.
C16_NormalizedInvariantOnce ==
    (Normalized /\ normalizedDomain # NULL) =>
        /\ IsLowerCase(normalizedDomain)
        /\ DotCount(normalizedDomain) > 0
        /\ DecoratedOnce(parts) =>
              /\ ~HasSchemePrefix(normalizedDomain)
              /\ ~EndsWith(normalizedDomain, SLASH)
              /\ ~StartsWith(normalizedDomain, WWW)

\* 'HTTP://WWW.SUB.EXAMPLE.COM/' gives 'sub.example.com'
C16_Witness ==
    /\ Normalized
    /\ parts.upper
    /\ parts.prefixes = <<SCHEME_HTTP, WWW>>
    /\ parts.slashes = 1
    /\ DecoratedOnce(parts)
    /\ normalizedDomain = DOMAIN_SUB_EXAMPLE

Renormalized == pc = "renormalized"
\* a result that normalizeDomain leaves as it is: no whitespace at either
\* end, no scheme before it, no '/' after it, no 'www.' before it
IsClean(s) ==
    /\ Trim(s) = s
    /\ ~HasSchemePrefix(s)
    /\ ~EndsWith(s, SLASH)
    /\ ~StartsWith(s, WWW)

\* C28, as stated: normalizeDomain is idempotent: for every input x whose
\* result is non-null, normalizeDomain(normalizeDomain(x)) equals
\* normalizeDomain(x).
C28_Idempotent ==
    Renormalized => normalizedDomain = domainFilter

\* C28, amended: the second call returns the first result exactly when that
\* result has no whitespace at either end, no scheme prefix, no trailing '/'
\* and no leading 'www.', which is so whenever the input carries at most one
\* scheme, then at most one 'www.', before a host without whitespace at its
\* ends, and at most one '/' after it.
C28_IdempotentOnCleanResults ==
    Renormalized =>
        /\ (normalizedDomain = domainFilter) <=> IsClean(domainFilter)
        /\ (DecoratedOnce(parts) /\ Trim(parts.host) = parts.host) =>
              normalizedDomain = domainFilter

\* '  HTTPS://WWW.GITHUB.COM/' gives 'github.com', which gives 'github.com'
C28_Witness ==
    /\ Renormalized
    /\ parts.upper
    /\ Len(parts.lead) > 0
    /\ parts.prefixes = <<SCHEME_HTTPS, WWW>>
    /\ parts.slashes = 1
    /\ domainFilter = DOMAIN_GITHUB
    /\ normalizedDomain = DOMAIN_GITHUB

\* the parents of a domain: what follows each of its dots
Ancestors(d) == {SubSeq(d, i + 1, Len(d)) : i \in {j \in 1..Len(d) : d[j] = 46}}
\* generateDomainMatchers has been called with a result of normalizeDomain
GeneratedFromNormalized == Generated /\ normalizedDomain # NULL
\* one or more '.' and then one label
IsDotsThenLabel(s) ==
    \E k \in 1..(Len(s) - 1) :
        /\ \A j \in 1..k : s[j] = 46
        /\ \A j \in (k + 1)..Len(s) : s[j] # 46
\* no label of the domain is empty: no '.' at either end and no '..'
NonEmptyLabels(d) ==
    LET labels == Split(d, DOT) IN \A i \in 1..Len(labels) : Len(labels[i]) > 0

\* C29, as stated: for every non-null result D of normalizeDomain, the
\* sequence generateDomainMatchers(D) has no duplicate entries and no entry
\* that is dots followed by a single label, so the set built from it has as
\* many elements as the sequence.
C29_DistinctMatchers ==
    GeneratedFromNormalized =>
        /\ Cardinality(MatcherSet(domainMatchers)) = Len(domainMatchers)
        /\ \A i \in 1..Len(domainMatchers) : ~IsDotsThenLabel(domainMatchers[i])

\* C29, amended: the same for every non-null result D of normalizeDomain
\* that has no empty label; for any D the only entries that can coincide are
\* the first and the third.
C29_DistinctMatchersOfProperDomains ==
    GeneratedFromNormalized =>
        LET m == domainMatchers
        IN  /\ NonEmptyLabels(normalizedDomain) =>
                  /\ Cardinality(MatcherSet(m)) = Len(m)
                  /\ \A i \in 1..Len(m) : ~IsDotsThenLabel(m[i])
            /\ \A i, j \in 1..Len(m) : (i < j /\ m[i] = m[j]) => (i = 1 /\ j = 3)

\* 'api.v2.service.example.com': five entries, five elements
C29_Witness ==
    /\ pc = "generated"
    /\ normalizedDomain = DOMAIN_DEEP
    /\ NonEmptyLabels(normalizedDomain)
    /\ Len(domainMatchers) = 5
    /\ Cardinality(MatcherSet(domainMatchers)) = 5

\* the ancestors of a domain that contain a dot
DottedAncestors(d) == {p \in Ancestors(d) : DotCount(p) > 0}
\* the domains a host key can be stored for: itself, and what follows its
\* leading '.'
DomainsOfKey(h) == {h} \cup (IF StartsWith(h, DOT) THEN {Tail(h)} ELSE {})
\* the domains of a host key that have d as an ancestor
DescendantsIn(h, d) == {x \in DomainsOfKey(h) : d \in Ancestors(x)}

\* C30, as stated: for every normalized domain D and every proper ancestor P
\* of D that contains a dot, the matcher set of D contains '.' + P and never
\* the bare P, and the matcher set of P contains no host key of D; a
\* host-only cookie of P is not kept when filtering by D, a cookie of D is
\* not kept when filtering by P.
C30_OneDirectional ==
    GeneratedFromNormalized =>
        LET set == MatcherSet(domainMatchers)
        IN  /\ \A p \in DottedAncestors(normalizedDomain) :
                  DOT \o p \in set /\ p \notin set
            /\ \A m \in set : DescendantsIn(m, normalizedDomain) = {}
            /\ Matched =>
                  /\ matched.hostKey \in DottedAncestors(normalizedDomain) => ~matched.has
                  /\ DescendantsIn(matched.hostKey, normalizedDomain) # {} => ~matched.has

\* C30, amended: the same for the domains D in which no label is empty.
C30_OneDirectionalOnProperDomains ==
    GeneratedFromNormalized =>
        LET set == MatcherSet(domainMatchers)
            proper(h) == {x \in DescendantsIn(h, normalizedDomain) : NonEmptyLabels(x)}
        IN  /\ NonEmptyLabels(normalizedDomain) =>
                  \A p \in DottedAncestors(normalizedDomain) :
                      DOT \o p \in set /\ p \notin set
            /\ \A m \in set : proper(m) = {}
            /\ Matched =>
                  /\ (/\ NonEmptyLabels(normalizedDomain)
                      /\ matched.hostKey \in DottedAncestors(normalizedDomain)) => ~matched.has
                  /\ proper(matched.hostKey) # {} => ~matched.has

\* filtering by 'api.github.com' drops the host-only cookie of 'github.com'
C30_Witness ==
    /\ Matched
    /\ normalizedDomain = DOMAIN_API_GITHUB
    /\ NonEmptyLabels(normalizedDomain)
    /\ matched.hostKey = DOMAIN_GITHUB
    /\ matched.hostKey \in DottedAncestors(normalizedDomain)
    /\ DOT \o DOMAIN_GITHUB \in MatcherSet(domainMatchers)
    /\ ~matched.has

----------------------------------------------------------------------------
(* Properties of getChromiumCookiesMacOS (SpecCall)                        *)

Settled == pc = "done" /\ result.settled
ReturnedCookies == Settled /\ ~result.thrown
\* errors of copying, opening, querying and closing the database
IoErrors == {MSG_COPY, MSG_OPEN, MSG_QUERY, MSG_CLOSE}
AllowedHostKeys(d) ==
    {d, DOT \o d} \cup {DOT \o a : a \in {b \in Ancestors(d) : DotCount(b) > 0}}
Domains(cookies) == [i \in 1..Len(cookies) |-> cookies[i].domain]

\* C13: with a domain filter that normalizes to D, a cookie is returned for
\* a row only if its host_key is D, '.' + D, or '.' + an ancestor of D that
\* still contains a dot; 'github.com' keeps '.github.com' and 'github.com'
\* but not '.api.github.com' or '.example.com', and 'api.github.com' also
\* keeps '.github.com'.
C13_OnlyMatchingHosts ==
    (ReturnedCookies /\ normalizedDomain # NULL) =>
        /\ \A i \in 1..Len(result.cookies) :
              result.cookies[i].domain \in AllowedHostKeys(normalizedDomain)
        /\ (table = TABLE_GITHUB /\ normalizedDomain = DOMAIN_GITHUB) =>
              Domains(result.cookies) = <<DOT \o DOMAIN_GITHUB, DOMAIN_GITHUB>>
        /\ (table = TABLE_API /\ normalizedDomain = DOMAIN_API_GITHUB) =>
              Domains(result.cookies) =
                <<DOT \o DOMAIN_API_GITHUB, DOMAIN_API_GITHUB, DOT \o DOMAIN_GITHUB>>

\* the filter 'api.github.com' over the table of the subdomain test
C13_Witness ==
    /\ ReturnedCookies
    /\ domainFilter = DOMAIN_API_GITHUB
    /\ table = TABLE_API
    /\ Len(result.cookies) = 3

\* C14: a call with a domain filter that fails normalization returns the
\* same list of cookies as a call with no domain filter, and the filter
\* raises no error.
C14_InvalidFilterIsNoFilter ==
    (pc = "done" /\ domainFilter # NULL /\ NormalizeDomain(domainFilter) = NULL) =>
        /\ result.settled
        /\ result.thrown => result.error \in IoErrors
        /\ ~result.thrown => result.cookies = CookiesOf(table, NULL, derivedKey).cookies

\* 'localhost' over the table of the filtering test: all four rows come back
C14_Witness ==
    /\ ReturnedCookies
    /\ domainFilter = DOMAIN_LOCALHOST
    /\ table = TABLE_GITHUB
    /\ Len(result.cookies) = 4

\* the rows that passed the domain filter and were transformed to a Cookie
Survivors ==
    {i \in 1..Len(table) :
        /\ domainMatchers = NULL \/ table[i].host_key \in MatcherSet(domainMatchers)
        /\ ~TransformCookieRow(table[i], derivedKey).null}

\* C18: the list returned is an order-preserving image of the stored rows:
\* its cookies are one-to-one with the rows that passed the domain filter and
\* transformed to non-null, in storage order, and each cookie's domain is its
\* row's host_key unmodified.
C18_OrderPreservingImage ==
    ReturnedCookies =>
        \E f \in [1..Len(result.cookies) -> 1..Len(table)] :
            /\ \A i, j \in 1..Len(result.cookies) : i < j => f[i] < f[j]
            /\ {f[i] : i \in 1..Len(result.cookies)} = Survivors
            /\ \A i \in 1..Len(result.cookies) :
                  /\ result.cookies[i] = TransformCookieRow(table[f[i]], derivedKey).cookie
                  /\ result.cookies[i].domain = table[f[i]].host_key

\* three of the four mixed rows survive the filter 'github.com' with the
\* store key, with three different values
C18_Witness ==
    /\ ReturnedCookies
    /\ table = TABLE_MIXED
    /\ domainFilter = DOMAIN_GITHUB
    /\ derivedKey = STORE_KEY
    /\ Len(result.cookies) = 3
    /\ result.cookies[1].value = TEXT_SHORT
    /\ result.cookies[3].value = VALUE_1

\* the keychain fetch resolved null
NoPassword == keychain.error
KeychainDone == pc \in {"copy", "open", "query", "close", "done"} /\ cookieDbPath # NoPath
RowNeedsDecryption(r) ==
    /\ r.encrypted_value # NULL /\ Len(r.encrypted_value) > 0
    /\ ~(r.value # NULL /\ Len(r.value) > 0)
RowValue(r) == IF r.value = NULL THEN << >> ELSE r.value

\* C19: when the keychain fetch resolves null, key derivation is skipped,
\* every row that needs decryption (non-empty payload, no non-empty
\* plaintext) is dropped, the rows with plaintext or with no value at all
\* are still emitted (those the domain filter lets through), and the call
\* does not fail for it.
C19_NoPasswordDropsEncrypted ==
    (NoPassword /\ KeychainDone) =>
        /\ derivedKey = NULL
        /\ \A i \in 1..Len(effects) : effects[i].op # "pbkdf2Sync"
        /\ (pc = "done" /\ result.thrown) => result.error \in IoErrors
        /\ ReturnedCookies =>
              LET passed ==
                    SelectSeq(table, LAMBDA r :
                        /\ domainMatchers = NULL \/ r.host_key \in MatcherSet(domainMatchers)
                        /\ ~RowNeedsDecryption(r))
              IN  /\ Len(result.cookies) = Len(passed)
                  /\ \A i \in 1..Len(passed) :
                        /\ result.cookies[i].domain = passed[i].host_key
                        /\ result.cookies[i].value = RowValue(passed[i])

\* of the four mixed rows, the plaintext one and the one with no value
C19_Witness ==
    /\ ReturnedCookies
    /\ NoPassword
    /\ table = TABLE_MIXED
    /\ domainFilter = NULL
    /\ Len(result.cookies) = 2
    /\ result.cookies[1].value = << >>
    /\ result.cookies[2].value = VALUE_1

Unsupported == browserId \notin {<<99, 104, 114, 111, 109, 101>>, <<99, 104, 114, 111, 109, 105, 117, 109>>}
\* 'Unsupported browser: <id>. Supported: chrome, chromium'
UnsupportedMessage ==
    <<85, 110, 115, 117, 112, 112, 111, 114, 116, 101, 100, 32, 98, 114, 111, 119, 115, 101, 114, 58, 32>> \o browserId \o <<46, 32, 83, 117, 112, 112, 111, 114, 116, 101, 100, 58, 32, 99, 104, 114, 111, 109, 101, 44, 32, 99, 104, 114, 111, 109, 105, 117, 109>>

\* C20, as stated: for every browser id other than 'chrome' and 'chromium'
\* (the empty string included) getBrowserConfig throws 'Unsupported browser:
\* <id>. Supported: chrome, chromium' and getChromiumCookiesMacOS aborts with
\* that error before any store existence check, keychain fetch, temporary
\* copy or database access.
C20_UnsupportedBrowserAborts ==
    Unsupported =>
        /\ GetBrowserConfig(browserId).thrown
        /\ GetBrowserConfig(browserId).error = UnsupportedMessage
        /\ pc \in {"start", "config", "done"}
        /\ effects = << >>
        /\ db = NoDatabase
        /\ pc = "done" =>
              /\ result.settled
              /\ result.thrown
              /\ result.error = UnsupportedMessage

\* C20, amended: the same on macOS; on another platform the call aborts
\* earlier still, with the error of the platform check.
C20_UnsupportedBrowserAbortsOnMacOS ==
    Unsupported =>
        /\ GetBrowserConfig(browserId).thrown
        /\ GetBrowserConfig(browserId).error = UnsupportedMessage
        /\ pc \in {"start", "config", "done"}
        /\ effects = << >>
        /\ db = NoDatabase
        /\ pc = "done" =>
              /\ result.settled
              /\ result.thrown
              /\ result.error =
                    IF platform = "darwin" THEN UnsupportedMessage ELSE MSG_MACOS_ONLY

\* the empty browser id on macOS, with a store on disk and a password in the
\* keychain
C20_Witness ==
    /\ pc = "done"
    /\ platform = "darwin"
    /\ browserId = << >>
    /\ files # {}
    /\ ~keychain.error
    /\ result.thrown
    /\ result.error = UnsupportedMessage
    /\ effects = << >>

\* floor(expires_utc / 10^6) - 11644473600 in whole numbers, as <<hi, lo>>
FloorSeconds(expires_utc) ==
    LET low == expires_utc[2] - CHROME_EPOCH_DIFF_SECONDS[2]
        high == expires_utc[1] - CHROME_EPOCH_DIFF_SECONDS[1]
    IN  IF low < 0 THEN <<high - 1, low + LIMB>> ELSE <<high, low>>

\* C17: for every record emitted by transformCookieRow, expires is null if
\* and only if expires_utc <= 0, and when expires_utc > 0 expires equals
\* floor(expires_utc / 1,000,000) - 11,644,473,600.
C17_ExpiresIsFloorOfSeconds ==
    (Transformed /\ ~out.null) =>
        /\ (out.cookie.expires = NULL) <=> ~IsPositive(row.expires_utc)
        /\ IsPositive(row.expires_utc) =>
              out.cookie.expires = FloorSeconds(row.expires_utc)

\* 'Cookies database not found'
MSG_NOT_FOUND == SubSeq(MSG_NOT_FOUND_AT, 1, Len(MSG_NOT_FOUND_AT) - 4)
\* the call got as far as looking for the store
Looked == platform = "darwin" /\ ~Unsupported /\ pc \notin {"start", "config", "filter", "locate"}
\* <base>/<profile>/Cookies and <base>/Cookies of the browser asked for
BaseOf(id) == <<HOME_DIR, DIR_LIBRARY, DIR_APP_SUPPORT, GetBrowserConfig(id).value.macOsBaseDir>>
ProfileStore == StoreIn(BaseOf(browserId), profileName)
RootStore == StoreIn(BaseOf(browserId), << >>)
EffectOps == {effects[i].op : i \in 1..Len(effects)}

\* C21: the store of the profile is used when it exists; if it does not and
\* the profile name is non-empty, the store directly under the base
\* directory is used when it exists; otherwise the call rejects with a
\* 'Cookies database not found' error, and then no keychain fetch, no
\* temporary copy and no database open is made.
C21_StoreResolution ==
    Looked =>
        IF ProfileStore \in files THEN cookieDbPath = ProfileStore
        ELSE IF profileName # << >> /\ RootStore \in files THEN cookieDbPath = RootStore
        ELSE /\ pc = "done"
             /\ result.settled /\ result.thrown
             /\ StartsWith(result.error, MSG_NOT_FOUND)
             /\ cookieDbPath = NoPath
             /\ db = NoDatabase
             /\ EffectOps \subseteq {"existsSync"}

\* 'Profile 1' has no store, the base directory has one, and the call
\* returns the cookies of that one
C21_Witness ==
    /\ ReturnedCookies
    /\ profileName = PROFILE_1
    /\ ProfileStore \notin files
    /\ cookieDbPath = RootStore
    /\ Len(result.cookies) > 0

\* store-location and configuration errors
IsLocationError(message) == StartsWith(message, MSG_NOT_FOUND)
IsConfigurationError(message) == message = UnsupportedMessage

\* C22: the only errors the call surfaces are store-location errors and
\* configuration errors; per-record anomalies are absorbed and no other
\* failure, such as a query error or a close error, reaches the caller.
C22_OnlyLocationAndConfigurationErrors ==
    (pc = "done" /\ result.thrown) =>
        IsLocationError(result.error) \/ IsConfigurationError(result.error)

\* C22, amended: besides those, the error of the platform check and the
\* errors of copying the store and of opening, querying and closing the
\* database reach the caller; no row, whatever is in it, makes the call fail.
C22_SurfacedErrors ==
    /\ pc = "done" =>
          /\ result.settled
          /\ result.thrown =>
                \/ IsLocationError(result.error)
                \/ IsConfigurationError(result.error)
                \/ result.error = MSG_MACOS_ONLY
                \/ result.error \in IoErrors
    /\ \A key \in {derivedKey, NULL} : ~CookiesOf(table, domainMatchers, key).thrown
    /\ (pc = "close" /\ ~result.thrown) =>
          result = CookiesOf(table, domainMatchers, derivedKey)

\* the query of a store with a row that cannot be decrypted fails, the
\* database is closed and the caller gets the error of the query
C22_Witness ==
    /\ Settled
    /\ table = TABLE_MIXED
    /\ result.thrown
    /\ result.error = MSG_QUERY
    /\ "close" \in EffectOps

\* the calls made in the step now taken
NewEffects == SubSeq(effects', Len(effects) + 1, Len(effects'))
Count(calls, op) == Cardinality({i \in 1..Len(calls) : calls[i].op = op})
Ops(calls) == {calls[i].op : i \in 1..Len(calls)}

\* what the key derivation was called with: the passwords the keychain
\* fetch resolved with, null left out
DerivedFrom == {effects[i].arg[1] : i \in {j \in 1..Len(effects) : effects[j].op = "pbkdf2Sync"}}
\* 'test_password'
TEXT_PASSWORD == <<116, 101, 115, 116, 95, 112, 97, 115, 115, 119, 111, 114, 100>>

\* C24: the promise of the keychain fetcher never rejects.  Whenever the
\* call of `security` reports an error (item not found, permission denied,
\* an error without stderr) it resolves with null; otherwise it resolves
\* with the UTF-8 bytes of stdout with the whitespace around it trimmed, and
\* an empty stdout gives an empty buffer, which is not null.
C24_FetcherAlwaysResolves ==
    (KeychainDone /\ cookieDbPath # NoPath) =>
        /\ Count(effects, "execFile") = 1
        /\ (pc = "done" /\ result.thrown) => result.error \in IoErrors
        /\ keychain.error => DerivedFrom = {} /\ derivedKey = NULL
        /\ ~keychain.error =>
              /\ DerivedFrom = {Utf8Encode(Trim(keychain.stdout))}
              /\ derivedKey # NULL
              /\ \A password \in DerivedFrom :
                    /\ password = << >> \/
                          (~IsWhiteSpace(password[1]) /\ ~IsWhiteSpace(password[Len(password)]))
                    /\ keychain.stdout \in {STDOUT_PASSWORD, STDOUT_PADDED} =>
                          password = Utf8Encode(TEXT_PASSWORD)
                    /\ keychain.stdout = << >> => password = << >>

\* stdout is '  test_password  \n\n' and the cookies are decrypted with the
\* key of 'test_password'
C24_Witness ==
    /\ ReturnedCookies
    /\ keychain.stdout = STDOUT_PADDED
    /\ ~keychain.error
    /\ DerivedFrom = {Utf8Encode(TEXT_PASSWORD)}
    /\ table = TABLE_MIXED
    /\ \E i \in 1..Len(result.cookies) : result.cookies[i].value = TEXT_SHORT

\* secrets: none, bytes that are no text, 'test' and 'test_password'
Secrets ==
    {<< >>, <<0, 255, 127, 128>>, <<116, 101, 115, 116>>, Utf8Encode(TEXT_PASSWORD)}

Constructed == db # NoDatabase
CloseCalled ==
    \E i \in 1..Len(effects) :
        \/ effects[i].op = "close"
        \/ effects[i].op = "existsSync" /\ effects[i].arg = db.tempPath
\* db.close was called and reported no error
UnderlyingCloseSucceeded ==
    /\ Settled
    /\ "close" \in Ops(effects)
    /\ ~(result.thrown /\ result.error = MSG_CLOSE)

\* C26: in every run that constructs the temporary copy, close() is
\* eventually called on it, before the promise of the call settles, whether
\* the query succeeds or open or the query fails; and when the underlying
\* close succeeds, the temporary file and the temporary directory are
\* removed before the promise settles.
C26_ClosedAndRemoved ==
    Constructed ~>
        (/\ result.settled
         /\ CloseCalled
         /\ UnderlyingCloseSucceeded =>
               (db.tempPath \notin files /\ db.tempDir \notin files))

\* C26, amended: the same for close(); and when the underlying close
\* succeeds, unlinkSync of the temporary file and then rmdirSync of the
\* temporary directory are attempted before the promise settles: a file
\* that is still there after it (unlinkSync threw) leaves rmdirSync
\* untried, and neither failure changes what the call gives.
C26_ClosedAndRemovalAttempted ==
    Constructed ~>
        (/\ result.settled
         /\ CloseCalled
         /\ UnderlyingCloseSucceeded =>
               /\ "unlinkSync" \in Ops(effects)
               /\ db.tempPath \notin files => "rmdirSync" \in Ops(effects)
               /\ db.tempPath \in files =>
                     "rmdirSync" \notin Ops(effects) /\ db.tempDir \in files
               /\ result.thrown => result.error = MSG_QUERY
               /\ ~result.thrown =>
                     result.cookies = CookiesOf(table, domainMatchers, derivedKey).cookies)

\* the query failed, the database was closed all the same and nothing of
\* the temporary copy is left
C26_Witness ==
    /\ Settled
    /\ result.thrown /\ result.error = MSG_QUERY
    /\ {"copyFileSync", "all", "close", "unlinkSync", "rmdirSync"} \subseteq Ops(effects)
    /\ TEMP_DIR \notin files
    /\ TEMP_DIR \o <<FILE_TEMP>> \notin files
    /\ db.tempDir = TEMP_DIR

----------------------------------------------------------------------------
(* Properties of ChromiumCookieDatabase (SpecDatabase)                     *)


C27_CloseRejectsOnlyOnCloseError ==
    pc = "object" =>
        \A closeErr \in BOOLEAN, unlinkThrows \in BOOLEAN, rmdirThrows \in BOOLEAN :
            LET closed == Close(db, files, closeErr, unlinkThrows, rmdirThrows)
                called == Ops(closed.effects)
                unlinkFails == db.tempPath \in files /\ unlinkThrows
                rmdirFails == db.tempDir \in files /\ rmdirThrows
            IN  /\ closed.thrown <=> (db.state = "open" /\ closeErr)
                /\ closed.thrown =>
                      /\ closed.error = MSG_CLOSE
                      /\ called = {"close"}
                      /\ closed.files = files
                /\ ~closed.thrown =>
                      /\ ("close" \in called) <=> (db.state = "open")
                      /\ "existsSync" \in called
                      /\ ("unlinkSync" \in called) <=> (db.tempPath \in files)
                      /\ ("rmdirSync" \in called) <=> (db.tempDir \in files /\ ~unlinkFails)
                      /\ (db.tempPath \in closed.files) <=> unlinkFails
                      /\ (db.tempDir \in closed.files) <=>
                            (db.tempDir \in files /\ (unlinkFails \/ rmdirFails))
                      /\ closed.files \subseteq files
                      /\ (files \ closed.files) \subseteq {db.tempPath, db.tempDir}

\* an opened database whose close failed: the promise is rejected with the
\* error of sqlite3 and the temporary file has not been looked at
C27_Witness ==
    /\ pc = "object"
    /\ db.state = "open"
    /\ result.settled /\ result.thrown /\ result.error = MSG_CLOSE
    /\ effects[Len(effects)].op = "close"
    /\ "unlinkSync" \notin Ops(effects)
    /\ "existsSync" \notin Ops(effects)
    /\ db.tempPath \in files

====
